---- MODULE Spec2Model ----
(***************************************************************************)
(* A model of the videosum processing pipeline:                            *)
(*   scripts/process_video.py    process_video and its helpers             *)
(*   scripts/regenerate_notes.py main / process_folder                     *)
(*   scripts/regenerate_blog.py  main / process_folder                     *)
(*                                                                         *)
(* The archive is a tree of at most two levels: the archive root and the   *)
(* optional subfolder below it; job folders live in either.  A path is a   *)
(* pair <<subfolder, name>>, subfolder "" standing for the archive root.   *)
(* Folder names are sequences of tokens: single characters, except for the *)
(* leading token of a name (a formatted date, the "_processing_" prefix).  *)
(*                                                                         *)
(* Money is counted in units of 10^-5 dollars, so that round(x, 4) is the  *)
(* rounding to a multiple of 10 units.                                     *)
(***************************************************************************)
EXTENDS Integers, Sequences, FiniteSets, TLC

----------------------------------------------------------------------------
(* Bounds of the model *)

MaxJobs == 2          \* process_video invocations in one behaviour
MaxClock == 1         \* the wall clock runs over 0..MaxClock seconds
TicksPerDay == 1      \* seconds of the (scaled) calendar day
MaxTail == 2          \* characters of a title that vary
MaxLines == 4         \* lines of a markdown text
MaxRuns == 1          \* regenerate_* invocations in one behaviour

----------------------------------------------------------------------------
(* Program constants *)

max_size_mb == 20             \* transcribe: split_audio(audio_path, max_size_mb=20)
max_length == 80              \* sanitize_folder_name(name, max_length=80)
BytesPerMinute == 1920000     \* transcribe: 16000 * 2 * 60
WhisperRate == 600            \* transcribe: 0.006 dollars a minute, in 10^-5 dollars

----------------------------------------------------------------------------
(* Generic helpers *)

Range(s) == {s[i] : i \in DOMAIN s}


\* dict.get(key, default)
Get(d, key, default) == IF key \in DOMAIN d THEN d[key] ELSE default

\* d[key] = value on a dict
Put(d, key, value) == [k \in DOMAIN d \cup {key} |-> IF k = key THEN value ELSE d[k]]

\* the dict without one key
Drop(d, key) == [k \in DOMAIN d \ {key} |-> d[k]]

\* a join that puts each later part in front
RECURSIVE join_reversed(_, _)
join_reversed(sep, parts) ==
    IF parts = <<>> THEN ""
    ELSE IF Len(parts) = 1 THEN parts[1]
    ELSE join_reversed(sep, Tail(parts)) \o sep \o parts[1]

\* sep.join(parts) on strings
RECURSIVE str_join(_, _)
str_join(sep, parts) ==
    IF parts = <<>> THEN ""
    ELSE IF Len(parts) = 1 THEN parts[1]
    ELSE parts[1] \o sep \o str_join(sep, Tail(parts))

----------------------------------------------------------------------------
(* Folder names: process_video.py, sanitize_folder_name and                *)
(* create_readable_folder_name                                             *)

InvalidChars == {"<", ">", ":", "\"", "/", "\\", "|", "?", "*"}
Whitespace == {" ", "\t", "\n"}

\* re.sub(r'[<>:"/\\|?*]', '', name)
remove_invalid(name) == SelectSeq(name, LAMBDA c : c \notin InvalidChars)

\* re.sub(r'[\s\-]+', ' ', sanitized): every maximal run becomes one space
collapse_runs(s) ==
    LET InRun(i) == s[i] \in Whitespace \cup {"-"}
        lasts == SelectSeq([i \in 1..Len(s) |-> i],
                           LAMBDA i : ~InRun(i) \/ i = Len(s) \/ ~InRun(i + 1))
    IN  [k \in 1..Len(lasts) |-> IF InRun(lasts[k]) THEN " " ELSE s[lasts[k]]]

\* str.lstrip(chars), str.rstrip(chars)
RECURSIVE lstrip(_, _)
lstrip(s, chars) ==
    IF s # <<>> /\ s[1] \in chars THEN lstrip(Tail(s), chars) ELSE s

RECURSIVE rstrip(_, _)
rstrip(s, chars) ==
    IF s # <<>> /\ s[Len(s)] \in chars
    THEN rstrip(SubSeq(s, 1, Len(s) - 1), chars)
    ELSE s

\* str.strip()
strip(s) == rstrip(lstrip(s, Whitespace), Whitespace)

\* s[:n]
prefix(s, n) == SubSeq(s, 1, IF Len(s) < n THEN Len(s) ELSE n)

\* a sanitizer that cuts to the length last
sanitize_cut_last(name, maxlen) ==
    prefix(rstrip(strip(collapse_runs(remove_invalid(name))), {".", " "}), maxlen)

sanitize_folder_name(name, maxlen) ==
    rstrip(prefix(strip(collapse_runs(remove_invalid(name))), maxlen), {".", " "})

\* the calendar day of a clock reading, and date.strftime('%Y-%m-%d')
DayOf(t) == t \div TicksPerDay
date_str(t) == "2025-01-0" \o ToString(1 + DayOf(t))

\* f"{date_str} - {clean_title}"
create_readable_folder_name(title, date) ==
    <<date_str(date), " ", "-", " ">> \o sanitize_folder_name(title, max_length)

\* f"_processing_{timestamp.strftime('%Y%m%d_%H%M%S')}"
temp_folder_name(timestamp) ==
    <<"_processing_", "20250101_00000" \o ToString(timestamp)>>

\* a suffix that starts at 2
suffixed_from_two(original_name, counter) ==
    original_name \o <<" ", "(", ToString(counter + 1), ")">>

\* f"{original_name} ({counter})"
suffixed_name(original_name, counter) ==
    original_name \o <<" ", "(", ToString(counter), ")">>

\* f"chunk_{i:03d}.mp3"
chunk_name(i) == "chunk_00" \o ToString(i) \o ".mp3"

IsProvisional(name) == name # <<>> /\ name[1] = "_processing_"

\* re.search(r'^# (.+)$', notes_md, re.MULTILINE): the first line "# x..."
IsH1(line) == Len(line) >= 3 /\ line[1] = "#" /\ line[2] = " "
title_match(notes_md) ==
    LET hits == {i \in DOMAIN notes_md : IsH1(notes_md[i])}
    IN  IF hits = {} THEN <<>>
        ELSE LET first == CHOOSE i \in hits : \A k \in hits : i <= k
             IN  <<SubSeq(notes_md[first], 3, Len(notes_md[first]))>>

----------------------------------------------------------------------------
(* Costs *)

\* round(x, 4) of a non-negative amount: to the nearest multiple of 10 units,
\* a tie going to the even multiple
round4(x) ==
    LET q == x \div 10
        r == x % 10
    IN  IF r < 5 THEN 10 * q
        ELSE IF r > 5 THEN 10 * (q + 1)
        ELSE IF q % 2 = 0 THEN 10 * q ELSE 10 * (q + 1)

\* transcribe: file_size / (16000 * 2 * 60) * 0.006
transcription_cost_of(file_size) == file_size \div (BytesPerMinute \div WhisperRate)

\* a chunk count that rounds file_size / max_size up
num_chunks_ceil(file_size) ==
    IF file_size <= max_size_mb * 1024 * 1024 THEN 1
    ELSE (file_size + max_size_mb * 1024 * 1024 - 1) \div (max_size_mb * 1024 * 1024)

\* split_audio: int(file_size / max_size) + 1 chunks above the limit, else one
max_size == max_size_mb * 1024 * 1024
num_chunks_of(file_size) ==
    IF file_size <= max_size THEN 1 ELSE (file_size \div max_size) + 1

\* Times as fractions <<numerator, denominator>> of a second: the quotients
\* of split_audio are kept exact (the rounding of floats is left out)
Ratio(a, b) == <<a, b>>
RatioEq(x, y) == x[1] * y[2] = y[1] * x[2]
RatioSum(x, y) == <<x[1] * y[2] + y[1] * x[2], x[2] * y[2]>>

\* split_audio, lines 122-123 and 128-135: chunk_duration = duration / num_chunks,
\* and for chunk i the arguments -ss i * chunk_duration and -t chunk_duration
chunk_plan(duration, num_chunks) ==
    LET chunk_duration == Ratio(duration, num_chunks)
    IN  [k \in 1..num_chunks |->
            [start_time |-> Ratio((k - 1) * chunk_duration[1], chunk_duration[2]),
             chunk_duration |-> chunk_duration]]

----------------------------------------------------------------------------
(* Inputs: source videos, collaborator responses, environments *)

\* A source video: its file name and stem, the fingerprint of its bytes, and
\* what ffmpeg / ffprobe produce from it.  Audio sizes are multiples of 3200
\* bytes, so that the transcription cost is a whole number of units.
Video1 == [name |-> "a.mp4", stem |-> <<"a">>, source_hash |-> "h1",
           audio_size |-> 12800, duration |-> 2]
Video2 == [name |-> "b.mp4", stem |-> <<"b">>, source_hash |-> "h2",
           audio_size |-> 20972800, duration |-> 2622]
Videos == {Video1, Video2}

\* One source, c.mp4, with audio of several lengths: 64 kbit/s mp3 (8000 bytes
\* a second) of 60 s, of exactly max_size and two and three times max_size, and
\* of a little more.  The cost of a size that is no multiple of 3200 bytes is
\* cut to whole units.
PlanAudio ==
    {<<480000, 60>>, <<max_size, 2621>>, <<max_size + 1280, 2622>>,
     <<2 * max_size, 5243>>, <<2 * max_size + 3200, 5243>>, <<3 * max_size, 7864>>}
PlanVideos ==
    {[name |-> "c.mp4", stem |-> <<"c">>, source_hash |-> "h3",
      audio_size |-> a[1], duration |-> a[2]] : a \in PlanAudio}
\* Sources whose file stems are awkward titles: up to MaxTail characters of
\* TitleAlphabet, alone or after 79 letters, so that the cut at max_length
\* falls inside them.  A stem is the title when the notes have no heading.
TitleAlphabet == {"x", ".", " ", "-", "?"}
Pad(n) == [i \in 1..n |-> "x"]
TitleTails == UNION {[1..n -> TitleAlphabet] : n \in 0..MaxTail}
Titles == {Pad(n) \o t : n \in {0, max_length - 1}, t \in TitleTails} \ {<<>>}
NameVideos ==
    {[name |-> "d.mp4", stem |-> t, source_hash |-> "h4",
      audio_size |-> 12800, duration |-> 2] : t \in Titles}
NameInputs ==
    {[video |-> v, subfolder |-> "", exists |-> TRUE, openai |-> TRUE, anthropic |-> TRUE] :
        v \in NameVideos}

PlanInputs ==
    {[video |-> v, subfolder |-> "", exists |-> TRUE, openai |-> TRUE, anthropic |-> TRUE] :
        v \in PlanVideos}

Subfolders == {"", "Sub"}

\* one invocation's arguments and environment
JobInputs ==
    {[video |-> Video1, subfolder |-> "",    exists |-> TRUE,  openai |-> TRUE,  anthropic |-> TRUE],
     [video |-> Video1, subfolder |-> "Sub", exists |-> TRUE,  openai |-> TRUE,  anthropic |-> TRUE],
     [video |-> Video2, subfolder |-> "",    exists |-> TRUE,  openai |-> TRUE,  anthropic |-> TRUE],
     [video |-> Video2, subfolder |-> "Sub", exists |-> FALSE, openai |-> TRUE,  anthropic |-> TRUE],
     [video |-> Video2, subfolder |-> "Sub", exists |-> TRUE,  openai |-> FALSE, anthropic |-> TRUE],
     [video |-> Video2, subfolder |-> "Sub", exists |-> TRUE,  openai |-> TRUE,  anthropic |-> FALSE]}

\* the transcription collaborator: the text of one audio file
Whisper(audio) ==
    IF audio.seg = "all" THEN "Hello world"
    ELSE IF audio.seg = "0" THEN "Hello"
    ELSE IF audio.seg = "1" THEN "world"
    ELSE "again"

\* the text-generation collaborator: (markdown, cost) of one request; the
\* markdown of notes is a sequence of lines
NotesResponses ==
    {[text |-> << <<"#", " ", "T">>, <<>>, <<"-", " ", "x">> >>, cost |-> 4],
     [text |-> << <<"n", "o">> >>, cost |-> 50000]}
BlogResponses ==
    {[text |-> "blog one", cost |-> 4]}

----------------------------------------------------------------------------
(* markdown_to_html: process_video.py, lines 416-452.  A text is the        *)
(* sequence of its lines, text.split('\n'), and a line a sequence of        *)
(* characters; each tag that the function inserts is one token.  The texts  *)
(* drawn hold no asterisk and no angle bracket, so the substitutions of     *)
(* lines 426-427 (bold, italic) find nothing in them.                       *)

Digits == {"0", "1", "2", "3", "4", "5", "6", "7", "8", "9"}
Tags == {"<h1>", "</h1>", "<h2>", "</h2>", "<h3>", "</h3>", "<li>", "</li>",
         "<ul>", "</ul>", "<hr>", "<p>", "</p>", "<br>"}

StartsWith(line, pre) == Len(line) >= Len(pre) /\ SubSeq(line, 1, Len(pre)) = pre

\* re.sub(r'^<marks> (.+)$', r'<open>\1<close>', ..., flags=re.MULTILINE) on one line
sub_prefix(line, marks, open, close) ==
    IF StartsWith(line, marks \o <<" ">>) /\ Len(line) > Len(marks) + 1
    THEN <<open>> \o SubSeq(line, Len(marks) + 2, Len(line)) \o <<close>>
    ELSE line

\* lines 421-423: '### ' first, then '## ', then '# '
convert_headers(line) ==
    sub_prefix(sub_prefix(sub_prefix(line, <<"#", "#", "#">>, "<h3>", "</h3>"),
                          <<"#", "#">>, "<h2>", "</h2>"),
               <<"#">>, "<h1>", "</h1>")

\* line 430: re.sub(r'^- (.+)$', r'<li>\1</li>', ...)
convert_bullets(line) == sub_prefix(line, <<"-">>, "<li>", "</li>")

\* a line that is one <li>...</li>
IsLi(line) == Len(line) >= 2 /\ line[1] = "<li>" /\ line[Len(line)] = "</li>"

\* line 433: re.sub(r'((?:<li>.*?</li>\n?)+)', r'<ul>\1</ul>', html_body): a run
\* of <li> lines, with the newline after its last line when there is one,
\* goes between <ul> and </ul>
wrap_lists(lines) ==
    LET n == Len(lines)
        first(i) == IsLi(lines[i]) /\ (i = 1 \/ ~IsLi(lines[i - 1]))
        last(i) == IsLi(lines[i]) /\ (i = n \/ ~IsLi(lines[i + 1]))
    IN  [i \in 1..n |->
            (IF first(i) THEN <<"<ul>">> ELSE <<>>)
            \o (IF i > 1 /\ last(i - 1) THEN <<"</ul>">> ELSE <<>>)
            \o lines[i]
            \o (IF i = n /\ last(i) THEN <<"</ul>">> ELSE <<>>)]

\* line 436: re.sub(r'^\d+\. (.+)$', r'<li>\1</li>', ...)
convert_numbered(line) ==
    LET nondigit == {i \in 1..Len(line) : line[i] \notin Digits}
        d == IF nondigit = {} THEN Len(line)
             ELSE (CHOOSE i \in nondigit : \A k \in nondigit : i <= k) - 1
    IN  IF d >= 1 /\ Len(line) >= d + 3 /\ line[d + 1] = "." /\ line[d + 2] = " "
        THEN <<"<li>">> \o SubSeq(line, d + 3, Len(line)) \o <<"</li>">>
        ELSE line

\* line 439: re.sub(r'^---+$', r'<hr>', ...)
convert_rules(line) ==
    IF Len(line) >= 3 /\ \A i \in 1..Len(line) : line[i] = "-" THEN <<"<hr>">> ELSE line

\* '\n'.join(lines) as one sequence of characters
RECURSIVE join_lines(_)
join_lines(lines) ==
    IF lines = <<>> THEN <<>>
    ELSE IF Len(lines) = 1 THEN lines[1]
    ELSE lines[1] \o <<"\n">> \o join_lines(Tail(lines))

\* html_body.split('\n\n')
RECURSIVE split_paragraphs(_)
split_paragraphs(text) ==
    LET breaks == {i \in 1..(Len(text) - 1) : text[i] = "\n" /\ text[i + 1] = "\n"}
    IN  IF breaks = {} THEN <<text>>
        ELSE LET b == CHOOSE i \in breaks : \A k \in breaks : i <= k
             IN  <<SubSeq(text, 1, b - 1)>> \o split_paragraphs(SubSeq(text, b + 2, Len(text)))

\* lines 444-448: p.strip(), and <p>...</p> around what does not start with '<'
wrap_paragraph(p) ==
    LET q == strip(p)
    IN  IF q # <<>> /\ q[1] \notin Tags THEN <<"<p>">> \o q \o <<"</p>">> ELSE q

\* line 452: re.sub(r'(?<!>)\n(?!<)', '<br>\n', html_body)
RECURSIVE insert_breaks(_, _)
insert_breaks(text, i) ==
    IF i > Len(text) THEN <<>>
    ELSE (IF /\ text[i] = "\n"
             /\ (i = 1 \/ text[i - 1] \notin Tags)
             /\ (i = Len(text) \/ text[i + 1] \notin Tags)
          THEN <<"<br>", "\n">>
          ELSE <<text[i]>>) \o insert_breaks(text, i + 1)

\* the html_body that markdown_to_html puts into its page
html_body_of(markdown) ==
    LET n == Len(markdown)
        items == [i \in 1..n |-> convert_bullets(convert_headers(markdown[i]))]
        wrapped == wrap_lists(items)
        ruled == [i \in 1..n |-> convert_rules(convert_numbered(wrapped[i]))]
        paragraphs == split_paragraphs(join_lines(ruled))
        processed == [k \in 1..Len(paragraphs) |-> wrap_paragraph(paragraphs[k])]
    IN  insert_breaks(join_lines(processed), 1)

\* markdown_to_html(markdown, title): the page, by its title and its body
markdown_to_html(markdown, title) ==
    [title |-> title, html_body |-> html_body_of(markdown)]

\* The markdown texts: up to MaxLines lines, each a heading, a bullet item,
\* a numbered item, plain text or empty, with or without a final newline
LineKinds == {<<"#", " ", "T">>, <<"-", " ", "a">>, <<"-", " ", "b">>,
              <<"1", ".", " ", "c">>, <<"t">>, <<>>}
Markdowns ==
    LET texts == UNION {[1..n -> LineKinds] : n \in 1..MaxLines}
    IN  texts \cup {t \o << <<>> >> : t \in texts}

----------------------------------------------------------------------------
(* State *)

VARIABLES
    dirs,     \* the directories that hold job folders: "" the archive root, "Sub"
    fs,       \* the job folders: path -> (file name -> content)
    now,      \* the wall clock, in seconds, when it was last read
    job,      \* process_video: the locals of each invocation
    log,      \* process_video: what each invocation did, in order
    run       \* regenerate_notes / regenerate_blog: the locals of the invocation

vars == <<dirs, fs, now, job, log, run>>

Jobs == 1..MaxJobs

NoPath == <<"", <<>>>>
NoFiles == <<>>
NoResult == [status |-> "none", folder |-> NoPath, message |-> ""]

\* a history entry
Ev(op, path, arg, n) == [op |-> op, path |-> path, arg |-> arg, n |-> n]

IdleJob ==
    [pc |-> "idle", video |-> Video1, subfolder |-> "", file_hash |-> "",
     timestamp |-> 0, output_folder |-> NoPath, duration |-> 0,
     file_size |-> 0, chunks |-> <<>>, i |-> 0, transcripts |-> <<>>, transcript |-> "",
     transcription_cost |-> 0, summarization_cost |-> 0, blog_cost |-> 0,
     notes_md |-> <<>>, title |-> <<>>, original_name |-> <<>>,
     final_folder |-> NoPath, counter |-> 0, result |-> NoResult,
     stdout |-> <<>>, exit_status |-> 0, plan |-> <<>>,
     markdown |-> <<>>, html |-> <<>>]

InFlight(j) == job[j].pc \notin {"idle", "done"}

----------------------------------------------------------------------------
(* The file system *)

Exists(F, p) == p \in DOMAIN F
HasFile(F, p, f) == p \in DOMAIN F /\ f \in DOMAIN F[p]

\* Path.mkdir(exist_ok=True)
Mkdir(F, p) == [q \in DOMAIN F \cup {p} |-> IF q \in DOMAIN F THEN F[q] ELSE NoFiles]

\* Path.write_text and any other write of a whole file
WriteFile(F, p, f, content) == [F EXCEPT ![p] = Put(@, f, content)]

\* Path.unlink
Unlink(F, p, f) == IF HasFile(F, p, f) THEN [F EXCEPT ![p] = Drop(@, f)] ELSE F

\* Path.rename of a folder
Rename(F, src, dst) ==
    [q \in (DOMAIN F \ {src}) \cup {dst} |-> IF q = dst THEN F[src] ELSE F[q]]

\* the folders that hold a metadata.json, at any depth
MetadataFiles(F) == {p \in DOMAIN F : "metadata.json" \in DOMAIN F[p]}

\* json.loads(text) gave a dict
IsRecord(meta) == meta.kind = "object"

----------------------------------------------------------------------------
(* process_video.py: check_already_processed *)

Found(p) == [kind |-> "found", folder |-> p]
NotFound == [kind |-> "none", folder |-> NoPath]
Raised == [kind |-> "raise", folder |-> NoPath]

\* a scan of the direct children of output_dir only (glob for rglob)
scanned_shallow(F, output_dir) == {p \in MetadataFiles(F) : p[1] = output_dir}

\* output_dir.rglob('metadata.json'): the folders the scan looks into, at any
\* depth below output_dir, the archive root
scanned(F, output_dir) == MetadataFiles(F)

\* The results the scan can give: rglob's order is the directory order, which
\* the program does not control.  A file that is no JSON is skipped; a file
\* that is JSON but no object makes metadata.get raise AttributeError, which
\* the except clause does not catch.
check_already_processed(F, root_exists, output_dir, file_hash) ==
    IF ~root_exists THEN {NotFound}
    ELSE LET files == scanned(F, output_dir)
             matches == {p \in files : /\ IsRecord(F[p]["metadata.json"])
                                       /\ Get(F[p]["metadata.json"].data,
                                              "source_hash", "None") = file_hash}
             raisers == {p \in files : F[p]["metadata.json"].kind = "array"}
         IN  {Found(p) : p \in matches}
               \cup (IF raisers # {} THEN {Raised} ELSE {})
               \cup (IF matches = {} /\ raisers = {} THEN {NotFound} ELSE {})

----------------------------------------------------------------------------
(* process_video.py: process_video, one action a step *)

Success(folder) == [status |-> "success", folder |-> folder, message |-> ""]
Duplicate(folder) == [status |-> "duplicate", folder |-> folder, message |-> "Already processed"]
Error(message) == [status |-> "error", folder |-> NoPath, message |-> message]

\* an exit status that is 0 whatever the outcome
main_exit_zero(result) == 0

\* __main__, lines 712-717.  A result with the status error stands for an
\* exception process_video raised, its message for str(e): main prints the
\* returned result, or the error object for an exception, and exits with 1
\* after an exception.
main_stdout(result) ==
    IF result.status = "error"
    THEN <<[status |-> "error", folder |-> NoPath, message |-> result.message]>>
    ELSE <<result>>
main_exit(result) == IF result.status = "error" THEN 1 ELSE 0

\* the script ends: the result is printed, the process exits
Exit(me, result) ==
    [me EXCEPT !.pc = "done",
               !.result = result,
               !.stdout = @ \o main_stdout(result),
               !.exit_status = main_exit(result)]

\* The invocation returns or raises: its locals are gone, its result is printed.
Finished(j, result) ==
    Exit([IdleJob EXCEPT !.video = job[j].video,
                         !.subfolder = job[j].subfolder,
                         !.file_hash = job[j].file_hash,
                         !.timestamp = job[j].timestamp,
                         !.output_folder = job[j].output_folder],
         result)

\* datetime.now(): the clock does not run backwards
datetime_now == now..MaxClock

Note(j, events) == log' = [log EXCEPT ![j] = @ \o events]

\* a progress event that leaves the total out
emit_progress_without_total(path, step, progress, total) ==
    [op |-> "progress", path |-> path, arg |-> step, n |-> progress, total |-> 0]

\* emit_progress(step, message, progress, total), lines 532-538: the event
\* carries progress and total when total > 0
emit_progress(path, step, progress, total) ==
    IF total > 0
    THEN [op |-> "progress", path |-> path, arg |-> step, n |-> progress, total |-> total]
    ELSE [op |-> "progress", path |-> path, arg |-> step, n |-> 0, total |-> 0]

\* a start that makes the target directory before it checks its inputs
PV_Start_MkdirFirst(j, in) ==
    /\ job[j].pc = "idle"
    /\ \A k \in Jobs : k < j => job[k].pc # "idle"
    /\ dirs' = dirs \cup {"", in.subfolder}
    /\ Note(j, <<Ev("mkdir", <<in.subfolder, <<>>>>, "",
                    Cardinality({"", in.subfolder} \ dirs))>>)
    /\ LET me == [job[j] EXCEPT !.video = in.video, !.subfolder = in.subfolder]
       IN  job' = [job EXCEPT ![j] =
               IF ~in.exists
               THEN Exit(me, Error("Video not found"))
               ELSE IF ~in.openai
               THEN Exit(me, Error("OPENAI_API_KEY not set"))
               ELSE IF ~in.anthropic
               THEN Exit(me, Error("ANTHROPIC_API_KEY not set"))
               ELSE [me EXCEPT !.pc = "check"]]
    /\ UNCHANGED <<fs, now, run>>

\* lines 570-586: the input checks, then target_dir.mkdir(parents=True, exist_ok=True)
PV_Start(j, in) ==
    /\ job[j].pc = "idle"
    /\ \A k \in Jobs : k < j => job[k].pc # "idle"
    /\ LET me == [job[j] EXCEPT !.video = in.video, !.subfolder = in.subfolder]
       IN  IF ~in.exists
           THEN /\ job' = [job EXCEPT ![j] = Exit(me, Error("Video not found"))]
                /\ UNCHANGED <<dirs, log>>
           ELSE IF ~in.openai
           THEN /\ job' = [job EXCEPT ![j] = Exit(me, Error("OPENAI_API_KEY not set"))]
                /\ UNCHANGED <<dirs, log>>
           ELSE IF ~in.anthropic
           THEN /\ job' = [job EXCEPT ![j] = Exit(me, Error("ANTHROPIC_API_KEY not set"))]
                /\ UNCHANGED <<dirs, log>>
           ELSE /\ dirs' = dirs \cup {"", in.subfolder}
                /\ job' = [job EXCEPT ![j] = [me EXCEPT !.pc = "check"]]
                /\ Note(j, <<Ev("mkdir", <<in.subfolder, <<>>>>, "",
                                Cardinality({"", in.subfolder} \ dirs))>>)
    /\ UNCHANGED <<fs, now, run>>

\* lines 588-598: the fingerprint and the duplicate gate
PV_CheckDuplicate(j) ==
    /\ job[j].pc = "check"
    /\ LET file_hash == job[j].video.source_hash
           me == [job[j] EXCEPT !.file_hash = file_hash]
       IN  \E existing \in check_already_processed(fs, "" \in dirs, "", file_hash) :
             /\ job' = [job EXCEPT ![j] =
                    IF existing.kind = "found"
                    THEN Exit(me, Duplicate(existing.folder))
                    ELSE IF existing.kind = "raise"
                    THEN Exit(me, Error("AttributeError"))
                    ELSE [me EXCEPT !.pc = "mkprov"]]
             /\ Note(j, <<Ev("scan", NoPath, existing.kind, 0)>>)
    /\ UNCHANGED <<dirs, fs, now, run>>

\* lines 600-604: the provisional folder, named after the clock's second
PV_CreateProvisional(j) ==
    /\ job[j].pc = "mkprov"
    /\ \E timestamp \in datetime_now :
         LET output_folder == <<job[j].subfolder, temp_folder_name(timestamp)>>
         IN  /\ now' = timestamp
             /\ fs' = Mkdir(fs, output_folder)
             /\ job' = [job EXCEPT ![j] = [@ EXCEPT !.pc = "extract",
                                                    !.timestamp = timestamp,
                                                    !.output_folder = output_folder]]
             /\ Note(j, <<Ev("mkdir", output_folder, "",
                              IF Exists(fs, output_folder) THEN 0 ELSE 1)>>)
    /\ UNCHANGED <<dirs, run>>

\* lines 606-612 and extract_audio: ffmpeg writes audio.mp3, ffprobe measures it
PV_ExtractAudio(j) ==
    /\ job[j].pc = "extract"
    /\ LET out == job[j].output_folder
           v == job[j].video
           audio == [src |-> v.source_hash, seg |-> "all", size |-> v.audio_size]
       IN  \E outcome \in {"ok", "ffmpeg failed", "ffprobe failed"} :
             IF outcome = "ffmpeg failed" \/ ~Exists(fs, out)
             THEN /\ job' = [job EXCEPT ![j] = Finished(j, Error("ffmpeg failed"))]
                  /\ Note(j, <<Ev("ffmpeg", out, "audio.mp3", 0)>>)
                  /\ UNCHANGED fs
             ELSE /\ fs' = WriteFile(fs, out, "audio.mp3", audio)
                  /\ Note(j, <<Ev("ffmpeg", out, "audio.mp3", 0),
                               Ev("write", out, "audio.mp3", 0),
                               Ev("ffprobe", out, "audio.mp3", 0)>>)
                  /\ job' = [job EXCEPT ![j] =
                         IF outcome = "ffprobe failed"
                         THEN Finished(j, Error("ffprobe failed"))
                         ELSE [@ EXCEPT !.pc = "split", !.duration = v.duration]]
    /\ UNCHANGED <<dirs, now, run>>

\* the chunk files 0..k-1 that split_audio wrote
WithChunks(F, p, audio, k) ==
    [F EXCEPT ![p] = [f \in DOMAIN F[p] \cup {chunk_name(i) : i \in 0..(k - 1)} |->
        IF \E i \in 0..(k - 1) : f = chunk_name(i)
        THEN [src |-> audio.src,
              seg |-> ToString(CHOOSE i \in 0..(k - 1) : f = chunk_name(i)),
              size |-> audio.size \div num_chunks_of(audio.size)]
        ELSE F[p][f]]]

\* the list split_audio returns
chunk_list(n) == IF n = 1 THEN <<"audio.mp3">> ELSE [i \in 1..n |-> chunk_name(i - 1)]

\* transcribe, lines 161-167, and split_audio: one ffmpeg run a chunk, the
\* first failing one ending the job
PV_SplitAudio(j) ==
    /\ job[j].pc = "split"
    /\ LET out == job[j].output_folder
       IN  IF ~HasFile(fs, out, "audio.mp3")
           THEN /\ job' = [job EXCEPT ![j] = Finished(j, Error("FileNotFoundError"))]
                /\ Note(j, <<Ev("stat", out, "audio.mp3", 0)>>)
                /\ UNCHANGED fs
           ELSE LET audio == fs[out]["audio.mp3"]
                    n == num_chunks_of(audio.size)
                IN  IF n = 1
                    THEN /\ job' = [job EXCEPT ![j] = [@ EXCEPT !.pc = "transcribe",
                                                                !.chunks = chunk_list(1),
                                                                !.i = 0,
                                                                !.file_size = audio.size]]
                         /\ Note(j, <<Ev("stat", out, "audio.mp3", 0)>>)
                         /\ UNCHANGED fs
                    ELSE \E k \in 0..n :
                         /\ fs' = WithChunks(fs, out, audio, k)
                         /\ Note(j, <<Ev("stat", out, "audio.mp3", 0)>>
                                     \o [i \in 1..k |-> Ev("write", out, chunk_name(i - 1), 0)])
                         /\ job' = [job EXCEPT ![j] =
                                IF k < n
                                THEN Finished(j, Error("ffmpeg chunk failed"))
                                ELSE [@ EXCEPT !.pc = "transcribe",
                                               !.chunks = chunk_list(n),
                                               !.plan = chunk_plan(job[j].duration, n),
                                               !.i = 0,
                                               !.file_size = audio.size]]
    /\ UNCHANGED <<dirs, now, run>>

\* transcribe, lines 170-179: one pass of the loop: the progress event, the
\* request for chunk i, and the removal of a chunk file that is not the audio
PV_TranscribeChunk(j) ==
    /\ job[j].pc = "transcribe"
    /\ job[j].i < Len(job[j].chunks)
    /\ LET out == job[j].output_folder
           i == job[j].i
           n == Len(job[j].chunks)
           chunk_path == job[j].chunks[i + 1]
           progress == emit_progress(out, "transcribing", i + 1, n)
       IN  IF ~HasFile(fs, out, chunk_path)
           THEN /\ job' = [job EXCEPT ![j] = Finished(j, Error("FileNotFoundError"))]
                /\ Note(j, <<progress>>)
                /\ UNCHANGED fs
           ELSE \E ok \in BOOLEAN :
                IF ~ok
                THEN /\ job' = [job EXCEPT ![j] = Finished(j, Error("transcription failed"))]
                     /\ Note(j, <<progress, Ev("request", out, chunk_path, i)>>)
                     /\ UNCHANGED fs
                ELSE /\ job' = [job EXCEPT ![j] =
                            [@ EXCEPT !.transcripts = Append(@, Whisper(fs[out][chunk_path])),
                                      !.i = i + 1]]
                     /\ IF chunk_path # "audio.mp3"
                        THEN /\ fs' = Unlink(fs, out, chunk_path)
                             /\ Note(j, <<progress, Ev("request", out, chunk_path, i),
                                          Ev("response", out, chunk_path, i),
                                          Ev("unlink", out, chunk_path, i)>>)
                        ELSE /\ UNCHANGED fs
                             /\ Note(j, <<progress, Ev("request", out, chunk_path, i),
                                          Ev("response", out, chunk_path, i)>>)
    /\ UNCHANGED <<dirs, now, run>>

\* transcribe, lines 181-188, and lines 616-618: the joined transcript, the
\* cost, and transcript.txt
PV_WriteTranscript(j) ==
    /\ job[j].pc = "transcribe"
    /\ job[j].i = Len(job[j].chunks)
    /\ LET out == job[j].output_folder
           full_transcript == str_join("\n\n", job[j].transcripts)
           cost == transcription_cost_of(job[j].file_size)
       IN  IF ~Exists(fs, out)
           THEN /\ job' = [job EXCEPT ![j] = Finished(j, Error("FileNotFoundError"))]
                /\ Note(j, <<Ev("write", out, "transcript.txt", 0)>>)
                /\ UNCHANGED fs
           ELSE /\ fs' = WriteFile(fs, out, "transcript.txt", full_transcript)
                /\ Note(j, <<Ev("write", out, "transcript.txt", 0)>>)
                /\ job' = [job EXCEPT ![j] = [@ EXCEPT !.pc = "notes",
                                                       !.transcript = full_transcript,
                                                       !.transcription_cost = cost]]
    /\ UNCHANGED <<dirs, now, run>>

\* a notes stage that asks again when the request has failed
PV_GenerateNotes_Retry(j) ==
    /\ job[j].pc = "notes"
    /\ LET out == job[j].output_folder
           request == Ev("generate", out, "notes", 0)
       IN  \/ /\ Note(j, <<request>>)
              /\ UNCHANGED <<fs, job>>
           \/ \E response \in NotesResponses :
                LET notes_md == response.text
                    m == title_match(notes_md)
                    title == IF m # <<>> THEN m[1] ELSE job[j].video.stem
                IN  /\ fs' = WriteFile(fs, out, "notes.md", notes_md)
                    /\ Note(j, <<request, Ev("write", out, "notes.md", 0)>>)
                    /\ job' = [job EXCEPT ![j] =
                           [@ EXCEPT !.pc = "name",
                                     !.notes_md = notes_md,
                                     !.summarization_cost = response.cost,
                                     !.title = title]]
    /\ UNCHANGED <<dirs, now, run>>

\* lines 620-627: the notes request, notes.md, and the title
PV_GenerateNotes(j) ==
    /\ job[j].pc = "notes"
    /\ LET out == job[j].output_folder
           request == Ev("generate", out, "notes", 0)
       IN  \/ /\ job' = [job EXCEPT ![j] = Finished(j, Error("notes generation failed"))]
              /\ Note(j, <<request>>)
              /\ UNCHANGED fs
           \/ \E response \in NotesResponses :
                LET notes_md == response.text
                    m == title_match(notes_md)
                    title == IF m # <<>> THEN m[1] ELSE job[j].video.stem
                IN  IF ~Exists(fs, out)
                    THEN /\ job' = [job EXCEPT ![j] = Finished(j, Error("FileNotFoundError"))]
                         /\ Note(j, <<request, Ev("write", out, "notes.md", 0)>>)
                         /\ UNCHANGED fs
                    ELSE /\ fs' = WriteFile(fs, out, "notes.md", notes_md)
                         /\ Note(j, <<request, Ev("write", out, "notes.md", 0)>>)
                         /\ job' = [job EXCEPT ![j] =
                                [@ EXCEPT !.pc = "name",
                                          !.notes_md = notes_md,
                                          !.summarization_cost = response.cost,
                                          !.title = title]]
    /\ UNCHANGED <<dirs, now, run>>

\* a naming step that reads the clock again for the date
PV_NameFolder_Today(j) ==
    /\ job[j].pc = "name"
    /\ \E today \in datetime_now :
         /\ now' = today
         /\ job' = [job EXCEPT ![j] =
                [@ EXCEPT !.pc = "collide",
                          !.final_folder =
                              <<job[j].subfolder,
                                create_readable_folder_name(job[j].title, today)>>,
                          !.counter = 1,
                          !.original_name = create_readable_folder_name(job[j].title, today)]]
    /\ UNCHANGED <<dirs, fs, log, run>>

\* lines 629-635: the readable name, from the title and the job's timestamp
PV_NameFolder(j) ==
    /\ job[j].pc = "name"
    /\ LET readable_folder_name == create_readable_folder_name(job[j].title, job[j].timestamp)
       IN  job' = [job EXCEPT ![j] =
               [@ EXCEPT !.pc = "collide",
                         !.final_folder = <<job[j].subfolder, readable_folder_name>>,
                         !.counter = 1,
                         !.original_name = readable_folder_name]]
    /\ UNCHANGED <<dirs, fs, now, log, run>>

\* lines 636-639: one test of the loop "while final_folder.exists()"
PV_CheckCollision(j) ==
    /\ job[j].pc = "collide"
    /\ job' = [job EXCEPT ![j] =
           IF Exists(fs, job[j].final_folder)
           THEN [@ EXCEPT !.final_folder =
                              <<job[j].subfolder,
                                suffixed_name(job[j].original_name, job[j].counter)>>,
                          !.counter = @ + 1]
           ELSE [@ EXCEPT !.pc = "rename"]]
    /\ Note(j, <<Ev("exists", job[j].final_folder, "", 0)>>)
    /\ UNCHANGED <<dirs, fs, now, run>>

\* lines 641-643: output_folder.rename(final_folder).  A rename onto an
\* existing folder fails, except that POSIX replaces an empty one.
PV_Rename(j) ==
    /\ job[j].pc = "rename"
    /\ LET src == job[j].output_folder
           dst == job[j].final_folder
       IN  /\ Note(j, <<Ev("rename", src, "", 0), Ev("rename to", dst, "", 0)>>)
           /\ IF ~Exists(fs, src)
              THEN /\ job' = [job EXCEPT ![j] = Finished(j, Error("FileNotFoundError"))]
                   /\ UNCHANGED fs
              ELSE \E replaces \in BOOLEAN :
                   IF Exists(fs, dst) /\ ~(replaces /\ DOMAIN fs[dst] = {})
                   THEN /\ job' = [job EXCEPT ![j] = Finished(j, Error("OSError"))]
                        /\ UNCHANGED fs
                   ELSE /\ fs' = Rename(fs, src, dst)
                        /\ job' = [job EXCEPT ![j] = [@ EXCEPT !.pc = "blog",
                                                               !.output_folder = dst]]
    /\ UNCHANGED <<dirs, now, run>>

\* lines 659-679: the metadata record of a job
metadata_of(me, clock) ==
    LET total_cost == me.transcription_cost + me.summarization_cost + me.blog_cost
    IN  [kind |-> "object",
         data |-> ("title" :> me.title
                @@ "source_file" :> me.video.name
                @@ "source_hash" :> me.file_hash
                @@ "duration_seconds" :> me.duration
                @@ "processed_at" :> clock
                @@ "subfolder" :> me.subfolder
                @@ "relative_path" :> me.output_folder
                @@ "costs" :> ("transcription" :> round4(me.transcription_cost)
                            @@ "summarization" :> round4(me.summarization_cost)
                            @@ "blog" :> round4(me.blog_cost)
                            @@ "total" :> round4(total_cost)))]

\* a blog stage that saves the record before the blog is generated
PV_GenerateBlog_RecordFirst(j) ==
    /\ job[j].pc = "blog"
    /\ LET out == job[j].output_folder
           early == WriteFile(fs, out, "metadata.json", metadata_of(job[j], now))
       IN  \/ /\ job' = [job EXCEPT ![j] = Finished(j, Error("blog generation failed"))]
              /\ fs' = early
           \/ \E response \in BlogResponses :
                /\ fs' = WriteFile(early, out, "blog.md", response.text)
                /\ job' = [job EXCEPT ![j] = [@ EXCEPT !.pc = "finalize",
                                                       !.blog_cost = response.cost]]
    /\ Note(j, <<Ev("generate", job[j].output_folder, "blog", 0)>>)
    /\ UNCHANGED <<dirs, now, run>>

\* lines 645-648: the blog request and blog.md
PV_GenerateBlog(j) ==
    /\ job[j].pc = "blog"
    /\ LET out == job[j].output_folder
           request == Ev("generate", out, "blog", 0)
       IN  \/ /\ job' = [job EXCEPT ![j] = Finished(j, Error("blog generation failed"))]
              /\ Note(j, <<request>>)
              /\ UNCHANGED fs
           \/ \E response \in BlogResponses :
                IF ~Exists(fs, out)
                THEN /\ job' = [job EXCEPT ![j] = Finished(j, Error("FileNotFoundError"))]
                     /\ Note(j, <<request, Ev("write", out, "blog.md", 0)>>)
                     /\ UNCHANGED fs
                ELSE /\ fs' = WriteFile(fs, out, "blog.md", response.text)
                     /\ Note(j, <<request, Ev("write", out, "blog.md", 0)>>)
                     /\ job' = [job EXCEPT ![j] = [@ EXCEPT !.pc = "finalize",
                                                            !.blog_cost = response.cost]]
    /\ UNCHANGED <<dirs, now, run>>

\* transcript_to_html(transcript, title, duration)
transcript_to_html(transcript, title, duration) ==
    [html |-> transcript, title |-> title, duration |-> duration]

\* the folder of audio_path, which line 609 computed before the rename
stale_audio_folder(me) == <<me.subfolder, temp_folder_name(me.timestamp)>>

\* line 657: the folder of (output_folder / 'audio.mp3').unlink(missing_ok=True)
audio_folder(me) == me.output_folder

\* lines 650-692: transcript.html, the removal of the audio, metadata.json
PV_Finalize(j) ==
    /\ job[j].pc = "finalize"
    /\ LET out == job[j].output_folder
           html == transcript_to_html(job[j].transcript, job[j].title, job[j].duration)
       IN  IF ~Exists(fs, out)
           THEN /\ job' = [job EXCEPT ![j] = Finished(j, Error("FileNotFoundError"))]
                /\ Note(j, <<Ev("write", out, "transcript.html", 0)>>)
                /\ UNCHANGED <<fs, now>>
           ELSE \E processed_at \in datetime_now :
                /\ now' = processed_at
                /\ fs' = WriteFile(
                           Unlink(WriteFile(fs, out, "transcript.html", html),
                                  audio_folder(job[j]), "audio.mp3"),
                           out, "metadata.json", metadata_of(job[j], processed_at))
                /\ Note(j, <<Ev("write", out, "transcript.html", 0),
                             Ev("unlink", audio_folder(job[j]), "audio.mp3", 0),
                             Ev("write", out, "metadata.json", 0)>>)
                /\ job' = [job EXCEPT ![j] = Finished(j, Success(out))]
    /\ UNCHANGED <<dirs, run>>

----------------------------------------------------------------------------
(* regenerate_notes.py and regenerate_blog.py: main and process_folder *)

\* the order of the characters that occur in folder names
TokenRank(tok) ==
    IF tok = "2024-12-31" THEN 0
    ELSE IF \E t \in 0..MaxClock : tok = date_str(t)
    THEN 1 + DayOf(CHOOSE t \in 0..MaxClock : tok = date_str(t))
    ELSE IF \E t \in 0..MaxClock : tok = temp_folder_name(t)[2]
    THEN CHOOSE t \in 0..MaxClock : tok = temp_folder_name(t)[2]
    ELSE IF \E d \in 0..9 : tok = ToString(d)
    THEN 48 + (CHOOSE d \in 0..9 : tok = ToString(d))
    ELSE CASE tok = " " -> 32
           [] tok = "(" -> 40
           [] tok = ")" -> 41
           [] tok = "-" -> 45
           [] tok = "." -> 46
           [] tok = "K" -> 75
           [] tok = "L" -> 76
           [] tok = "M" -> 77
           [] tok = "Sub" -> 83
           [] tok = "T" -> 84
           [] tok = "_processing_" -> 95
           [] tok = "a" -> 97
           [] tok = "b" -> 98
           [] tok = "c" -> 99
           [] OTHER -> 120

\* a < b on names, as Python compares the strings
RECURSIVE NameLess(_, _)
NameLess(a, b) ==
    IF b = <<>> THEN FALSE
    ELSE IF a = <<>> THEN TRUE
    ELSE IF a[1] = b[1] THEN NameLess(Tail(a), Tail(b))
    ELSE TokenRank(a[1]) < TokenRank(b[1])

\* sorted(paths) of paths in one directory
RECURSIVE sorted(_)
sorted(paths) ==
    IF paths = {} THEN <<>>
    ELSE LET least == CHOOSE p \in paths : \A q \in paths \ {p} : NameLess(p[2], q[2])
         IN  <<least>> \o sorted(paths \ {least})

\* main: [f for f in output_dir.iterdir() if f.is_dir()]: the job folders in
\* the archive root and the subfolder directories
iterdir(F, D) ==
    {p \in DOMAIN F : p[1] = ""} \cup {<<"", <<d>>>> : d \in D \ {""}}

\* main: the folders of the batch
folders_of(F, D) == sorted(iterdir(F, D))

RunOf(script, force, folders) ==
    [pc |-> "folder", script |-> script, force |-> force, folders |-> folders,
     idx |-> 1, results |-> <<>>, metadata |-> <<>>, transcript |-> "", n |-> run.n + 1,
     trace |-> run.trace]

\* main, up to the loop: the credential, the archive root, the folders;
\* limit bounds the invocations of one behaviour
RG_StartWithin(limit, script, force, all, folder) ==
    /\ run.pc \in {"idle", "done", "crashed", "exit"}
    /\ run.n < limit
    /\ IF "" \notin dirs
       THEN run' = [RunOf(script, force, <<>>) EXCEPT !.pc = "exit"]
       ELSE IF all
       THEN run' = RunOf(script, force, folders_of(fs, dirs))
       ELSE IF ~Exists(fs, folder)
       THEN run' = [RunOf(script, force, <<folder>>) EXCEPT !.pc = "exit"]
       ELSE run' = RunOf(script, force, <<folder>>)
    /\ UNCHANGED <<dirs, fs, now, job, log>>

RG_Start(script, force, all, folder) == RG_StartWithin(MaxRuns, script, force, all, folder)

\* what process_folder has to write: notes.md (regenerate_notes) or blog.md
StageFile(script) == IF script = "notes" THEN "notes.md" ELSE "blog.md"

\* the next folder of the batch
Advance(r, result) ==
    [r EXCEPT !.pc = "folder", !.idx = @ + 1, !.results = Append(@, result),
              !.metadata = <<>>, !.transcript = ""]

\* what the regeneration runs did so far, in order: a request to generate
\* (what: the script) and whether it returned a text, or the write of a file
RgEv(op, what, folder, returned) ==
    [op |-> op, what |-> what, folder |-> folder, returned |-> returned]

\* generate_notes, generate_blog: the request for the folder at hand
Requested(r, returned) ==
    Append(r.trace, RgEv("request", r.script, r.folders[r.idx], returned))

\* write_text in the folder at hand, one file after the other
Wrote(trace, folder, files) ==
    trace \o [i \in DOMAIN files |-> RgEv("write", files[i], folder, TRUE)]

\* process_folder up to the generation request, with a force that overrides
\* the check for the stage's file in both scripts
RG_OpenFolder_force_any ==
    /\ run.pc = "folder"
    /\ run.idx <= Len(run.folders)
    /\ LET folder == run.folders[run.idx]
           target == StageFile(run.script)
       IN  IF ~HasFile(fs, folder, "transcript.txt")
           THEN run' = Advance(run, "skip: No transcript.txt") /\ UNCHANGED fs
           ELSE IF ~HasFile(fs, folder, "metadata.json")
           THEN run' = Advance(run, "skip: No metadata.json") /\ UNCHANGED fs
           ELSE IF HasFile(fs, folder, target) /\ ~run.force
           THEN run' = Advance(run, "skip: already exists") /\ UNCHANGED fs
           ELSE IF ~IsRecord(fs[folder]["metadata.json"])
           THEN run' = [run EXCEPT !.pc = "crashed"] /\ UNCHANGED fs
           ELSE LET backup == run.script = "notes" /\ HasFile(fs, folder, "notes.md")
                IN  /\ run' = [run EXCEPT !.pc = "generate",
                                          !.transcript = fs[folder]["transcript.txt"],
                                          !.metadata = fs[folder]["metadata.json"].data,
                                          !.trace = IF backup
                                                    THEN Wrote(@, folder, <<"notes.md.bak">>)
                                                    ELSE @]
                    /\ IF backup
                       THEN fs' = WriteFile(fs, folder, "notes.md.bak", fs[folder]["notes.md"])
                       ELSE UNCHANGED fs
    /\ UNCHANGED <<dirs, now, job, log>>

\* process_folder up to the generation request, leaving the backup of the
\* notes for later
RG_OpenFolder_backup_after ==
    /\ run.pc = "folder"
    /\ run.idx <= Len(run.folders)
    /\ LET folder == run.folders[run.idx]
           target == StageFile(run.script)
       IN  IF ~HasFile(fs, folder, "transcript.txt")
           THEN run' = Advance(run, "skip: No transcript.txt") /\ UNCHANGED fs
           ELSE IF ~HasFile(fs, folder, "metadata.json")
           THEN run' = Advance(run, "skip: No metadata.json") /\ UNCHANGED fs
           ELSE IF HasFile(fs, folder, target) /\ ~(run.script = "notes" /\ run.force)
           THEN run' = Advance(run, "skip: already exists") /\ UNCHANGED fs
           ELSE IF ~IsRecord(fs[folder]["metadata.json"])
           THEN run' = [run EXCEPT !.pc = "crashed"] /\ UNCHANGED fs
           ELSE LET backup == FALSE
                IN  /\ run' = [run EXCEPT !.pc = "generate",
                                          !.transcript = fs[folder]["transcript.txt"],
                                          !.metadata = fs[folder]["metadata.json"].data,
                                          !.trace = IF backup
                                                    THEN Wrote(@, folder, <<"notes.md.bak">>)
                                                    ELSE @]
                    /\ IF backup
                       THEN fs' = WriteFile(fs, folder, "notes.md.bak", fs[folder]["notes.md"])
                       ELSE UNCHANGED fs
    /\ UNCHANGED <<dirs, now, job, log>>

\* process_folder up to the generation request: the three reasons to skip,
\* the reads of transcript.txt and metadata.json, and the backup of the notes.
\* json.loads and metadata.get raise on a file that holds no JSON object,
\* and nothing catches it.
RG_OpenFolder ==
    /\ run.pc = "folder"
    /\ run.idx <= Len(run.folders)
    /\ LET folder == run.folders[run.idx]
           target == StageFile(run.script)
       IN  IF ~HasFile(fs, folder, "transcript.txt")
           THEN run' = Advance(run, "skip: No transcript.txt") /\ UNCHANGED fs
           ELSE IF ~HasFile(fs, folder, "metadata.json")
           THEN run' = Advance(run, "skip: No metadata.json") /\ UNCHANGED fs
           ELSE IF HasFile(fs, folder, target) /\ ~(run.script = "notes" /\ run.force)
           THEN run' = Advance(run, "skip: already exists") /\ UNCHANGED fs
           ELSE IF ~IsRecord(fs[folder]["metadata.json"])
           THEN run' = [run EXCEPT !.pc = "crashed"] /\ UNCHANGED fs
           ELSE LET backup == run.script = "notes" /\ HasFile(fs, folder, "notes.md")
                IN  /\ run' = [run EXCEPT !.pc = "generate",
                                          !.transcript = fs[folder]["transcript.txt"],
                                          !.metadata = fs[folder]["metadata.json"].data,
                                          !.trace = IF backup
                                                    THEN Wrote(@, folder, <<"notes.md.bak">>)
                                                    ELSE @]
                    /\ IF backup
                       THEN fs' = WriteFile(fs, folder, "notes.md.bak", fs[folder]["notes.md"])
                       ELSE UNCHANGED fs
    /\ UNCHANGED <<dirs, now, job, log>>

\* a ledger after a notes regeneration that starts from an empty ledger
notes_costs_fresh(metadata, cost) ==
    ("summarization" :> round4(cost) @@ "total" :> round4(cost))

\* a ledger after a notes regeneration whose total leaves the blog entry out
notes_costs_without_blog(metadata, cost) ==
    LET costs == Get(metadata, "costs", <<>>)
        with == Put(costs, "summarization", round4(cost))
    IN  Put(with, "total", round4(Get(with, "transcription", 0) + cost))

\* regenerate_notes.py lines 130-139: the ledger after a notes regeneration
notes_costs(metadata, cost) ==
    LET costs == Get(metadata, "costs", <<>>)
        with == Put(costs, "summarization", round4(cost))
    IN  Put(with, "total",
            round4(Get(with, "transcription", 0) + cost + Get(with, "blog", 0)))

\* regenerate_blog.py lines 123-131: the ledger after a blog regeneration
blog_costs(metadata, cost) ==
    LET costs == Get(metadata, "costs", <<>>)
        with == Put(costs, "blog", round4(cost))
    IN  Put(with, "total",
            round4(Get(with, "transcription", 0) + Get(with, "summarization", 0) + cost))

\* process_folder from the generation request on, writing a metadata.json
\* that holds the ledger alone
RG_Generate_ledger_only ==
    /\ run.pc = "generate"
    /\ LET folder == run.folders[run.idx]
       IN  \/ /\ run' = [run EXCEPT !.pc = "crashed", !.trace = Requested(run, FALSE)]
              /\ UNCHANGED fs
           \/ \E response \in (IF run.script = "notes" THEN NotesResponses ELSE BlogResponses) :
                LET costs == IF run.script = "notes"
                             THEN notes_costs(run.metadata, response.cost)
                             ELSE blog_costs(run.metadata, response.cost)
                    metadata == ("costs" :> costs)
                IN  /\ fs' = WriteFile(
                                WriteFile(fs, folder, StageFile(run.script), response.text),
                                folder, "metadata.json",
                                [kind |-> "object", data |-> metadata])
                    /\ run' = [Advance(run, "success") EXCEPT
                                 !.trace = Wrote(Requested(run, TRUE), folder,
                                                 <<StageFile(run.script), "metadata.json">>)]
    /\ UNCHANGED <<dirs, now, job, log>>

\* process_folder from the generation request on: the stage's file, then
\* metadata.json with the new ledger
RG_Generate ==
    /\ run.pc = "generate"
    /\ LET folder == run.folders[run.idx]
       IN  \/ /\ run' = [run EXCEPT !.pc = "crashed", !.trace = Requested(run, FALSE)]
              /\ UNCHANGED fs
           \/ \E response \in (IF run.script = "notes" THEN NotesResponses ELSE BlogResponses) :
                LET costs == IF run.script = "notes"
                             THEN notes_costs(run.metadata, response.cost)
                             ELSE blog_costs(run.metadata, response.cost)
                    metadata == Put(run.metadata, "costs", costs)
                IN  /\ fs' = WriteFile(
                                WriteFile(fs, folder, StageFile(run.script), response.text),
                                folder, "metadata.json",
                                [kind |-> "object", data |-> metadata])
                    /\ run' = [Advance(run, "success") EXCEPT
                                 !.trace = Wrote(Requested(run, TRUE), folder,
                                                 <<StageFile(run.script), "metadata.json">>)]
    /\ UNCHANGED <<dirs, now, job, log>>

\* main, after the loop: the summary line
RG_Done ==
    /\ run.pc = "folder"
    /\ run.idx > Len(run.folders)
    /\ run' = [run EXCEPT !.pc = "done"]
    /\ UNCHANGED <<dirs, fs, now, job, log>>

----------------------------------------------------------------------------
(* Archives that exist before the first invocation *)

LegacyName == <<"2024-12-31", " ", "-", " ", "L">>

\* a record of an earlier version of the pipeline, which wrote no notes
LegacyRecord(source_hash, costs) ==
    [kind |-> "object",
     data |-> ("title" :> <<"L">>
            @@ "source_file" :> "old.mp4"
            @@ "source_hash" :> source_hash
            @@ "duration_seconds" :> 600
            @@ "processed_at" :> 0
            @@ "costs" :> costs)]

LegacyFolder(source_hash, costs) ==
    ("transcript.txt" :> "old talk"
  @@ "blog.md" :> "old blog"
  @@ "metadata.json" :> LegacyRecord(source_hash, costs))

LegacyCosts == ("transcription" :> 100000 @@ "blog" :> 200000 @@ "total" :> 300000)

EmptyArchive == [dirs |-> {}, fs |-> <<>>]
DeepArchive ==
    [dirs |-> {"", "Sub"},
     fs |-> (<<"Sub", LegacyName>> :> LegacyFolder("h1", LegacyCosts))]

\* an archive of the earlier version: one folder without notes, one without blog
OtherName == <<"2024-12-31", " ", "-", " ", "M">>
OtherFolder ==
    ("transcript.txt" :> "other talk"
  @@ "notes.md" :> << <<"#", " ", "M">> >>
  @@ "metadata.json" :> [kind |-> "object",
                         data |-> ("title" :> <<"M">>
                                @@ "source_file" :> "other.mp4"
                                @@ "source_hash" :> "h0"
                                @@ "duration_seconds" :> 60
                                @@ "costs" :> ("transcription" :> 10
                                            @@ "summarization" :> 20
                                            @@ "total" :> 30))])
RootArchive ==
    [dirs |-> {""},
     fs |-> (<<"", LegacyName>> :> LegacyFolder("h9", LegacyCosts)
          @@ <<"", OtherName>> :> OtherFolder)]

\* an archive with what two failed process_video jobs left behind: a
\* provisional folder with the audio alone and one with audio and transcript
LeftoverArchive ==
    [dirs |-> {""},
     fs |-> (<<"", temp_folder_name(0)>> :>
                ("audio.mp3" :> [seg |-> "all", src |-> "h1", size |-> 12800])
          @@ <<"", temp_folder_name(1)>> :>
                ("audio.mp3" :> [seg |-> "all", src |-> "h1", size |-> 12800]
              @@ "transcript.txt" :> "Hello world")
          @@ <<"", LegacyName>> :> LegacyFolder("h9", LegacyCosts)
          @@ <<"", OtherName>> :> OtherFolder)]

\* archives with a metadata.json that holds no record: a file cut short, which
\* is no JSON, or a JSON list; its folder sorts before the folder of a good record
BrokenName == <<"2024-12-31", " ", "-", " ", "K">>
BrokenFolder(kind) ==
    ("transcript.txt" :> "cut talk"
  @@ "metadata.json" :> [kind |-> kind, data |-> <<>>])
TruncatedArchive ==
    [dirs |-> {""},
     fs |-> (<<"", BrokenName>> :> BrokenFolder("invalid")
          @@ <<"", LegacyName>> :> LegacyFolder("h1", LegacyCosts))]
ArrayArchive ==
    [dirs |-> {""},
     fs |-> (<<"", BrokenName>> :> BrokenFolder("array")
          @@ <<"", LegacyName>> :> LegacyFolder("h1", LegacyCosts))]

IdleRun ==
    [pc |-> "idle", script |-> "notes", force |-> FALSE, folders |-> <<>>,
     idx |-> 1, results |-> <<>>, metadata |-> <<>>, transcript |-> "", n |-> 0,
     trace |-> <<>>]

----------------------------------------------------------------------------
(* Specifications *)

InitWith(archives) ==
    /\ \E a \in archives : dirs = a.dirs /\ fs = a.fs
    /\ now = 0
    /\ job = [j \in Jobs |-> IdleJob]
    /\ log = [j \in Jobs |-> <<>>]
    /\ run = IdleRun

Step(j) ==
    \/ PV_CheckDuplicate(j)
    \/ PV_CreateProvisional(j)
    \/ PV_ExtractAudio(j)
    \/ PV_SplitAudio(j)
    \/ PV_TranscribeChunk(j)
    \/ PV_WriteTranscript(j)
    \/ PV_GenerateNotes(j)
    \/ PV_NameFolder(j)
    \/ PV_CheckCollision(j)
    \/ PV_Rename(j)
    \/ PV_GenerateBlog(j)
    \/ PV_Finalize(j)

\* no invocation of any script is under way
Quiet == (\A k \in Jobs : ~InFlight(k)) /\ run.pc \notin {"folder", "generate"}

SeqStart(j, in) ==
    /\ Quiet
    /\ PV_Start(j, in)

SeqRegenerate(script, force, all, folder) ==
    /\ Quiet
    /\ RG_Start(script, force, all, folder)

\* SeqSpec: process_video invocations, one after the other
SeqInit == InitWith({EmptyArchive, DeepArchive})

SeqNext ==
    \/ \E j \in Jobs, in \in JobInputs : SeqStart(j, in)
    \/ \E j \in Jobs : Step(j)

SeqSpec == SeqInit /\ [][SeqNext]_vars

\* RegenSpec: one process_video invocation and regenerations, one after the other
RegenInit == InitWith({EmptyArchive, RootArchive})

RegenNext ==
    \/ \E in \in JobInputs : SeqStart(1, in)
    \/ Step(1)
    \/ \E script \in {"notes", "blog"}, force \in BOOLEAN :
         \/ SeqRegenerate(script, force, TRUE, NoPath)
         \/ \E folder \in DOMAIN fs : SeqRegenerate(script, force, FALSE, folder)
    \/ RG_OpenFolder
    \/ RG_Generate
    \/ RG_Done

RegenSpec == RegenInit /\ [][RegenNext]_vars

\* RerunSpec: regenerations of an archive, one after the other, one more
\* than in RegenSpec
RerunInit == InitWith({RootArchive, LeftoverArchive})

RerunNext ==
    \/ \E script \in {"notes", "blog"}, force \in BOOLEAN :
         \/ RG_StartWithin(MaxRuns + 1, script, force, TRUE, NoPath)
         \/ \E folder \in DOMAIN fs :
              RG_StartWithin(MaxRuns + 1, script, force, FALSE, folder)
    \/ RG_OpenFolder
    \/ RG_Generate
    \/ RG_Done

RerunSpec == RerunInit /\ [][RerunNext]_vars

\* PlanSpec: one process_video invocation on audio of several sizes
PlanInit == InitWith({EmptyArchive})

PlanNext ==
    \/ \E in \in PlanInputs : SeqStart(1, in)
    \/ Step(1)

PlanSpec == PlanInit /\ [][PlanNext]_vars

\* NameSpec: one process_video invocation on sources with awkward names
NameInit == InitWith({EmptyArchive})

NameNext ==
    \/ \E in \in NameInputs : SeqStart(1, in)
    \/ Step(1)

NameSpec == NameInit /\ [][NameNext]_vars

\* MarkdownSpec: markdown_to_html applied to each markdown text.  No script
\* of src/ calls the function; job 1 holds its argument and its result.
MarkdownInit ==
    /\ dirs = EmptyArchive.dirs
    /\ fs = EmptyArchive.fs
    /\ now = 0
    /\ \E md \in Markdowns :
           job = [j \in Jobs |-> IF j = 1 THEN [IdleJob EXCEPT !.markdown = md] ELSE IdleJob]
    /\ log = [j \in Jobs |-> <<>>]
    /\ run = IdleRun

Render(j) ==
    /\ job[j].markdown # <<>>
    /\ job[j].html = <<>>
    /\ job' = [job EXCEPT ![j].html =
                   markdown_to_html(job[j].markdown, <<"T">>).html_body]
    /\ UNCHANGED <<dirs, fs, now, log, run>>

MarkdownNext == Render(1)

MarkdownSpec == MarkdownInit /\ [][MarkdownNext]_vars

\* ConcSpec: process_video invocations on one source and one target
\* directory, their steps interleaved in any order
ConcInputs ==
    {[video |-> Video1, subfolder |-> "", exists |-> TRUE, openai |-> TRUE, anthropic |-> TRUE]}

ConcInit == InitWith({EmptyArchive})

ConcNext ==
    \/ \E j \in Jobs, in \in ConcInputs : PV_Start(j, in)
    \/ \E j \in Jobs : Step(j)

ConcSpec == ConcInit /\ [][ConcNext]_vars

\* CorruptSpec: the invocations of RegenSpec, on an archive with a corrupt record
CorruptInit == InitWith({TruncatedArchive, ArrayArchive})

CorruptSpec == CorruptInit /\ [][RegenNext]_vars

----------------------------------------------------------------------------
(* Vocabulary of the claims *)

\* the folders whose metadata.json is a record with this fingerprint
RecordsWith(F, file_hash) ==
    {p \in MetadataFiles(F) : /\ IsRecord(F[p]["metadata.json"])
                              /\ Get(F[p]["metadata.json"].data, "source_hash", "None") = file_hash}

\* process_video is past the duplicate gate and has not returned
PastGate == {"mkprov", "extract", "split", "transcribe", "notes", "name",
             "collide", "rename", "blog", "finalize"}

ChunkNames == {chunk_name(i) : i \in 0..9}

\* the job's folder carries a final name
HasFinal(j) == job[j].output_folder # NoPath /\ ~IsProvisional(job[j].output_folder[2])

\* the entries of a history with one of these operations
Only(l, ops) == SelectSeq(l, LAMBDA e : e.op \in ops)

----------------------------------------------------------------------------
(* C1 *)

\* the invocation made no directory and started no extraction or transcription
CreatedNothing(l) ==
    \A k \in DOMAIN l : /\ ~(l[k].op = "mkdir" /\ l[k].n > 0)
                        /\ l[k].op \notin {"ffmpeg", "request"}

\* C1: whenever the archive holds, at any depth, a record with the fingerprint
\* of the source, process_video returns the status duplicate naming a folder of
\* such a record, and an invocation that returns duplicate has created no
\* folder (no provisional folder, no subfolder directory) and has started no
\* audio extraction or transcription.
C1_DuplicateGate ==
    [][\A j \in Jobs :
         /\ (/\ job[j].pc = "check"
             /\ job'[j].pc # "check"
             /\ RecordsWith(fs, job[j].video.source_hash) # {})
            => /\ job'[j].result.status = "duplicate"
               /\ job'[j].result.folder \in RecordsWith(fs, job[j].video.source_hash)
         /\ job'[j].result.status = "duplicate" => CreatedNothing(log'[j])]_vars

----------------------------------------------------------------------------
(* C2 *)

\* C2: when process_video fails at a step after the duplicate gate, the job's
\* folder (provisional or final) holds no metadata.json and no record of the
\* archive carries the fingerprint of its source; the folder of a failed job
\* never holds a metadata.json later either.
C2_NoPartialRecord ==
    [][\A j \in Jobs :
         /\ (job[j].pc \in PastGate /\ job'[j].result.status = "error")
            => RecordsWith(fs', job[j].file_hash) = {}
         /\ (job'[j].result.status = "error" /\ job'[j].output_folder # NoPath)
            => ~HasFile(fs', job'[j].output_folder, "metadata.json")]_vars

\* a job failed in blog generation, after the rename
C2_Witness ==
    \E j \in Jobs : /\ job[j].result.message = "blog generation failed"
                    /\ HasFinal(j)
                    /\ HasFile(fs, job[j].output_folder, "notes.md")

----------------------------------------------------------------------------
(* C3 *)

\* C3: with process_video invocations one after the other, no two records of
\* the archive carry the same fingerprint, and no invocation is past the
\* duplicate gate (so none extracts or transcribes) while a record with the
\* fingerprint of its source exists.
C3_AtMostOnce ==
    /\ \A p, q \in MetadataFiles(fs) :
         (/\ p # q
          /\ IsRecord(fs[p]["metadata.json"])
          /\ IsRecord(fs[q]["metadata.json"]))
         => Get(fs[p]["metadata.json"].data, "source_hash", "None")
              # Get(fs[q]["metadata.json"].data, "source_hash", "None")
    /\ \A j \in Jobs :
         job[j].pc \in PastGate => RecordsWith(fs, job[j].file_hash) = {}

\* a source was processed into one directory and then found from another
C3_Witness ==
    \E j, k \in Jobs :
        /\ job[j].result.status = "success"
        /\ job[k].result.status = "duplicate"
        /\ job[k].result.folder = job[j].result.folder
        /\ job[j].subfolder # job[k].subfolder

----------------------------------------------------------------------------
(* C4 *)

\* the k-th name tried for a job: the readable name, then its suffixed forms
Candidate(j, k) ==
    LET base == create_readable_folder_name(job[j].title, job[j].timestamp)
    IN  IF k = 0 THEN base ELSE base \o <<" ", "(", ToString(k), ")">>

\* C4: with invocations one after the other, a job is renamed to the first
\* name among "<date> - <title>", "<date> - <title> (1)", "<date> - <title> (2)",
\* ... that is free in its target directory, and no two jobs end with the
\* same final folder.
C4_CollisionSafeNaming ==
    /\ \A j, k \in Jobs :
         (j # k /\ HasFinal(j) /\ HasFinal(k))
         => job[j].output_folder # job[k].output_folder
    /\ \A j \in Jobs :
         job[j].pc = "blog"
         => \E k \in 0..MaxJobs :
              /\ job[j].output_folder = <<job[j].subfolder, Candidate(j, k)>>
              /\ \A m \in 0..(k - 1) : Exists(fs, <<job[j].subfolder, Candidate(j, m)>>)

\* two jobs of one date and title: "2025-01-01 - T" and "2025-01-01 - T (1)"
C4_Witness ==
    \E j, k \in Jobs :
        /\ job[j].output_folder = <<"", <<"2025-01-01", " ", "-", " ", "T">>>>
        /\ job[k].output_folder = <<"", <<"2025-01-01", " ", "-", " ", "T", " ", "(", "1", ")">>>>
        /\ job[k].pc = "blog"

----------------------------------------------------------------------------
(* C5 *)

\* the write of the notes
IsNotesWrite(e) == e.op = "write" /\ e.arg = "notes.md"

\* the writes that follow the rename in the code, and the removal of the audio
LateFiles == {"blog.md", "transcript.html", "metadata.json"}
IsLateWrite(e) ==
    \/ e.op = "write" /\ e.arg \in LateFiles
    \/ e.op = "unlink" /\ e.arg = "audio.mp3"

\* the place of the rename in a history: past its end when there is none
RenameAt(l) ==
    LET at == {m \in DOMAIN l : l[m].op = "rename"}
    IN  IF at = {} THEN Len(l) + 1 ELSE CHOOSE m \in at : \A n \in at : m <= n

\* C5 as stated: every write of notes.md, blog.md, transcript.html and
\* metadata.json, and the removal of audio.mp3, is addressed to the final
\* folder, and after the rename no operation of the job names the provisional
\* folder.
C5_WritesTargetFinal ==
    \A j \in Jobs :
        LET l == log[j]
            r == RenameAt(l)
        IN  \A k \in DOMAIN l :
                /\ (IsNotesWrite(l[k]) \/ IsLateWrite(l[k]))
                   => ~IsProvisional(l[k].path[2])
                /\ k > r => ~IsProvisional(l[k].path[2])

\* C5, amended: notes.md is written into the provisional folder, before the
\* rename, and reaches the final folder by the rename; the writes of blog.md,
\* transcript.html and metadata.json and the removal of audio.mp3 are
\* addressed to the folder the rename produced; after the rename no operation
\* of the job names the provisional folder.
C5_WritesAfterRename ==
    \A j \in Jobs :
        LET l == log[j]
            r == RenameAt(l)
        IN  /\ \A k \in DOMAIN l :
                /\ IsLateWrite(l[k])
                   => /\ k > r + 1
                      /\ l[r + 1].op = "rename to"
                      /\ l[k].path = l[r + 1].path
                      /\ ~IsProvisional(l[k].path[2])
                /\ k > r => ~IsProvisional(l[k].path[2])
                /\ IsNotesWrite(l[k])
                   => /\ k < r
                      /\ IsProvisional(l[k].path[2])
            /\ job[j].result.status = "success"
               => /\ HasFile(fs, job[j].result.folder, "notes.md")
                  /\ ~IsProvisional(job[j].result.folder[2])

\* a job succeeded: its notes went to the provisional folder, its audio was
\* removed from the final one
C5_Witness ==
    \E j \in Jobs :
        /\ job[j].result.status = "success"
        /\ \E k \in DOMAIN log[j] : /\ log[j][k].op = "write"
                                    /\ log[j][k].arg = "notes.md"
                                    /\ IsProvisional(log[j][k].path[2])
        /\ \E k \in DOMAIN log[j] : /\ log[j][k].op = "unlink"
                                    /\ log[j][k].arg = "audio.mp3"
                                    /\ log[j][k].path = job[j].result.folder

----------------------------------------------------------------------------
(* C6 *)

\* C6: check_already_processed never returns a provisional folder, and the
\* folders a regenerate_notes or regenerate_blog run lists and hands to
\* process_folder never include a provisional folder.
C6_ProvisionalInvisible ==
    /\ \A j \in Jobs :
         job[j].result.status = "duplicate" => ~IsProvisional(job[j].result.folder[2])
    /\ \A i \in DOMAIN run.folders : ~IsProvisional(run.folders[i][2])

----------------------------------------------------------------------------
(* C7 *)

\* the requests and responses of a job's transcription, in order
Exchanges(j) == Only(log[j], {"request", "response"})

\* the parts in their order, a blank line between two of them
RECURSIVE InOrder(_)
InOrder(parts) ==
    IF parts = <<>> THEN ""
    ELSE IF Len(parts) = 1 THEN parts[1]
    ELSE InOrder(SubSeq(parts, 1, Len(parts) - 1)) \o "\n\n" \o parts[Len(parts)]

\* C7: transcribe issues one request a chunk, in ascending chunk index, each
\* answered before the next is issued, and when it has returned there was
\* exactly one request for each of the N chunks and the transcript is the N
\* chunk transcripts in chunk order with "\n\n" between them (two chunks
\* "Hello" and "world" give "Hello\n\nworld").
C7_OrderedTranscription ==
    \A j \in Jobs :
        LET x == Exchanges(j)
            me == job[j]
        IN  /\ \A k \in DOMAIN x :
                  /\ x[k].op = (IF k % 2 = 1 THEN "request" ELSE "response")
                  /\ x[k].n = (k - 1) \div 2
                  /\ me.pc = "transcribe" => x[k].arg = me.chunks[(k - 1) \div 2 + 1]
            /\ me.pc = "transcribe"
               => /\ Len(x) = 2 * me.i
                  /\ Len(me.transcripts) = me.i
            /\ me.pc = "notes"
               => /\ Len(x) = 2 * Len(me.chunks)
                  /\ Len(me.transcripts) = Len(me.chunks)
                  /\ me.transcript = InOrder(me.transcripts)
                  /\ me.transcript = (IF Len(me.chunks) = 2
                                      THEN "Hello\n\nworld" ELSE "Hello world")
                  /\ fs[me.output_folder]["transcript.txt"] = me.transcript

\* transcribe has returned for a plan of two chunks
C7_Witness ==
    \E j \in Jobs : /\ job[j].pc = "notes"
                    /\ job[j].chunks = <<chunk_name(0), chunk_name(1)>>
                    /\ job[j].transcripts = <<"Hello", "world">>
                    /\ job[j].transcript = "Hello\n\nworld"

----------------------------------------------------------------------------
(* C8 *)

\* each chunk file is removed right after its transcript has arrived, before
\* the next request
ChunkDeletedInTurn(l) ==
    \A k \in DOMAIN l :
        /\ (l[k].op = "response" /\ l[k].arg # "audio.mp3")
           => /\ k + 1 \in DOMAIN l
              /\ l[k + 1].op = "unlink"
              /\ l[k + 1].arg = l[k].arg
        /\ (l[k].op = "unlink" /\ l[k].arg # "audio.mp3")
           => /\ k - 1 \in DOMAIN l
              /\ l[k - 1].op = "response"
              /\ l[k - 1].arg = l[k].arg

\* transcribe does not remove the audio: it is removed only once
\* transcript.html is written
AudioKept(j) ==
    /\ \A k \in DOMAIN log[j] :
         (log[j][k].op = "unlink" /\ log[j][k].arg = "audio.mp3")
         => \E m \in 1..(k - 1) : log[j][m].op = "write" /\ log[j][m].arg = "transcript.html"
    /\ job[j].pc = "notes" => HasFile(fs, job[j].output_folder, "audio.mp3")

\* no chunk file is left in the job's folder when transcribe has returned
NoChunkLeft(j) ==
    job[j].pc = "notes" => DOMAIN fs[job[j].output_folder] \cap ChunkNames = {}

\* C8: each chunk file is deleted after its own transcript has been obtained
\* and before the next chunk's request; transcribe never deletes the original
\* audio; and when transcribe has returned no chunk_NNN.mp3 is left in the
\* job's folder.
C8_ChunkCleanup ==
    \A j \in Jobs : ChunkDeletedInTurn(log[j]) /\ AudioKept(j) /\ NoChunkLeft(j)

----------------------------------------------------------------------------
(* C9 *)

\* the regeneration of notes that this step completes: its folder, the ledger
\* it read, the ledger it wrote
NotesRegenerated == run.pc = "generate" /\ run.script = "notes" /\ run'.pc = "folder"
LedgerRead == Get(run.metadata, "costs", <<>>)
LedgerWritten == fs'[run.folders[run.idx]]["metadata.json"].data["costs"]
NotesWritten == fs'[run.folders[run.idx]]["notes.md"]

\* C9 as stated: after a regeneration of the notes with cost c, the total is
\* the transcription and blog entries of the record (0 when absent) plus c.
C9_LedgerAccumulation ==
    [][NotesRegenerated =>
         \A r \in NotesResponses :
            NotesWritten = r.text
            => LedgerWritten["total"] = Get(LedgerRead, "transcription", 0)
                                          + Get(LedgerRead, "blog", 0) + r.cost]_vars

\* C9, amended: after a regeneration of the notes with cost c, the
\* summarization entry is c rounded to 4 decimals and the total is the
\* transcription and blog entries of the record (0 when absent) plus c,
\* rounded to 4 decimals; the other entries are as they were.  A record with
\* {transcription: 1.0, blog: 2.0} and c = 0.5 gets
\* {transcription: 1.0, blog: 2.0, summarization: 0.5, total: 3.5}.
C9_LedgerAccumulationRounded ==
    [][NotesRegenerated =>
         \A r \in NotesResponses :
            NotesWritten = r.text
            => /\ LedgerWritten["total"] = round4(Get(LedgerRead, "transcription", 0)
                                                  + Get(LedgerRead, "blog", 0) + r.cost)
               /\ LedgerWritten["summarization"] = round4(r.cost)
               /\ DOMAIN LedgerWritten = DOMAIN LedgerRead \cup {"summarization", "total"}
               /\ \A stage \in DOMAIN LedgerRead \ {"summarization", "total"} :
                     LedgerWritten[stage] = LedgerRead[stage]
               /\ (LedgerRead = LegacyCosts /\ r.cost = 50000)
                  => LedgerWritten = ("transcription" :> 100000 @@ "blog" :> 200000
                                   @@ "summarization" :> 50000 @@ "total" :> 350000)]_vars

\* the record with {transcription: 1.0, blog: 2.0} after a regeneration of
\* its notes that cost 0.5
C9_Witness ==
    /\ run.script = "notes"
    /\ "success" \in Range(run.results)
    /\ HasFile(fs, <<"", LegacyName>>, "metadata.json")
    /\ fs[<<"", LegacyName>>]["metadata.json"].data["costs"]
         = ("transcription" :> 100000 @@ "blog" :> 200000
         @@ "summarization" :> 50000 @@ "total" :> 350000)

----------------------------------------------------------------------------
(* C10 *)

\* the sum of the stage entries a ledger holds
StoredSum(costs) ==
    Get(costs, "transcription", 0) + Get(costs, "summarization", 0) + Get(costs, "blog", 0)

\* C10: in every record of the archive, after any sequence of process_video,
\* regenerate_notes and regenerate_blog, costs.total is the sum of the stage
\* entries stored in that record, a missing stage counting for nothing.
C10_LedgerTotal ==
    \A p \in MetadataFiles(fs) :
        (IsRecord(fs[p]["metadata.json"]) /\ "costs" \in DOMAIN fs[p]["metadata.json"].data)
        => LET costs == fs[p]["metadata.json"].data["costs"]
           IN  costs["total"] = StoredSum(costs)

----------------------------------------------------------------------------
(* C11 *)

\* the folder a regeneration run is working on, and its stage's ledger entry
RunFolder == run.folders[run.idx]
StageEntry == IF run.script = "notes" THEN "summarization" ELSE "blog"

\* a regeneration run is at work on a folder in this step
Regenerating == run.pc \in {"folder", "generate"} /\ run.idx <= Len(run.folders)

\* the files of the archive this step created, changed or removed
FilesChanged ==
    {pf \in (DOMAIN fs \cup DOMAIN fs') \X {"transcript.txt", "notes.md", "notes.md.bak",
                                            "blog.md", "transcript.html", "metadata.json",
                                            "audio.mp3"} :
        \/ HasFile(fs, pf[1], pf[2]) # HasFile(fs', pf[1], pf[2])
        \/ /\ HasFile(fs, pf[1], pf[2])
           /\ fs[pf[1]][pf[2]] # fs'[pf[1]][pf[2]]}

\* this step left the record of the folder as it was, but for the ledger
\* entries named
LedgerFrame(folder, entries) ==
    <<folder, "metadata.json">> \in FilesChanged
    => LET old == fs[folder]["metadata.json"].data
           new == fs'[folder]["metadata.json"].data
           was == Get(old, "costs", <<>>)
           is == new["costs"]
       IN  /\ fs'[folder]["metadata.json"].kind = "object"
           /\ DOMAIN new = DOMAIN old \cup {"costs"}
           /\ \A key \in DOMAIN old \ {"costs"} : new[key] = old[key]
           /\ DOMAIN is = DOMAIN was \cup entries
           /\ \A stage \in DOMAIN was \ entries : is[stage] = was[stage]

\* C11 as stated: a regeneration changes only its own stage's file, its own
\* cost entry and the total: regenerating the notes leaves blog.md and the
\* blog and transcription entries as they were, regenerating the blog leaves
\* notes.md and the summarization and transcription entries as they were.
C11_StageIndependence ==
    [][Regenerating =>
         /\ FilesChanged \subseteq {<<RunFolder, StageFile(run.script)>>,
                                    <<RunFolder, "metadata.json">>}
         /\ LedgerFrame(RunFolder, {StageEntry, "total"})]_vars

\* C11, amended: a regeneration changes only its own stage's file, its own
\* cost entry and the total, and, when forced notes regeneration finds a
\* notes.md, the backup notes.md.bak, which receives the old notes;
\* regenerating the notes leaves blog.md and the blog and transcription
\* entries as they were, regenerating the blog leaves notes.md and the
\* summarization and transcription entries as they were.
C11_StageIndependenceBackup ==
    [][Regenerating =>
         /\ FilesChanged \subseteq {<<RunFolder, StageFile(run.script)>>,
                                    <<RunFolder, "metadata.json">>,
                                    <<RunFolder, "notes.md.bak">>}
         /\ <<RunFolder, "notes.md.bak">> \in FilesChanged
            => /\ run.script = "notes" /\ run.force
               /\ HasFile(fs, RunFolder, "notes.md")
               /\ fs'[RunFolder]["notes.md.bak"] = fs[RunFolder]["notes.md"]
         /\ LedgerFrame(RunFolder, {StageEntry, "total"})]_vars

\* the notes of the record {transcription, blog, total} were regenerated: its
\* blog.md and its blog and transcription entries are the old ones
C11_Witness ==
    /\ run.script = "notes"
    /\ run.results = <<"success">>
    /\ run.folders[1] = <<"", LegacyName>>
    /\ HasFile(fs, <<"", LegacyName>>, "notes.md")
    /\ fs[<<"", LegacyName>>]["blog.md"] = "old blog"
    /\ fs[<<"", LegacyName>>]["metadata.json"].data["costs"]["blog"] = 200000
    /\ fs[<<"", LegacyName>>]["metadata.json"].data["costs"]["transcription"] = 100000

----------------------------------------------------------------------------
(* C12 *)

\* the archive holds a metadata.json that is no record
CorruptFiles(F) == {p \in MetadataFiles(F) : ~IsRecord(F[p]["metadata.json"])}

\* C12: in an archive with metadata.json files that are unreadable, cut short,
\* no JSON, or JSON but no record, the duplicate scan never raises: it returns
\* the folder of a record with the fingerprint when there is one, and "not
\* found" otherwise, so that the job goes on to its provisional folder.
C12_CorruptRecordsSkipped ==
    [][\A j \in Jobs :
         (job[j].pc = "check" /\ job'[j].pc # "check" /\ CorruptFiles(fs) # {})
         => IF RecordsWith(fs, job[j].video.source_hash) # {}
            THEN /\ job'[j].result.status = "duplicate"
                 /\ job'[j].result.folder \in RecordsWith(fs, job[j].video.source_hash)
            ELSE job'[j].pc = "mkprov"]_vars

----------------------------------------------------------------------------
(* C13 *)

\* C13: when a regeneration run comes to a folder whose metadata.json is
\* unreadable or malformed, it skips the folder, leaves the files as they
\* are, and goes on to the next folder of the batch.
C13_CorruptFolderSkipped ==
    [][(/\ Regenerating
        /\ run.pc = "folder"
        /\ RunFolder \in CorruptFiles(fs))
       => /\ run'.pc = "folder"
          /\ run'.idx = run.idx + 1
          /\ Len(run'.results) = Len(run.results) + 1
          /\ run'.results[Len(run'.results)] # "success"
          /\ fs' = fs]_vars

----------------------------------------------------------------------------
(* C14 *)

\* the messages of the three input errors
InputErrors == {"Video not found", "OPENAI_API_KEY not set", "ANTHROPIC_API_KEY not set"}

\* C14: when the source file does not exist or a credential is missing,
\* process_video ends with an error in its first step, having made no
\* directory (no target subfolder, no provisional folder) and no file and
\* having called no external tool or service: the archive is as it was.
C14_InputErrorsLeaveNoState ==
    [][\A j \in Jobs :
         /\ (job[j].pc = "idle" /\ job'[j].result.message \in InputErrors)
            => /\ job'[j].pc = "done"
               /\ job'[j].result.status = "error"
               /\ dirs' = dirs
               /\ fs' = fs
               /\ log'[j] = <<>>
         /\ job[j].result.message \in InputErrors
            => log'[j] = <<>> /\ job'[j] = job[j]]_vars

\* a job for the subfolder "Sub" ended for a missing credential, and there is
\* no directory "Sub"
C14_Witness ==
    \E j \in Jobs : /\ job[j].result.message = "ANTHROPIC_API_KEY not set"
                    /\ job[j].subfolder = "Sub"
                    /\ "Sub" \notin dirs
                    /\ log[j] = <<>>

----------------------------------------------------------------------------
(* C15 *)

\* the calls to the transcription and generation services in a history
IsServiceCall(e) == e.op \in {"request", "generate"}
ServiceCalls(l) == SelectSeq(l, IsServiceCall)

ServiceFailures == {"transcription failed", "notes generation failed",
                    "blog generation failed"}

\* C15: a job asks at most once for the transcript of each chunk, for the
\* notes and for the blog; when one of these requests fails the job ends with
\* an error result in that step, the failed request being the last thing it
\* did: no further call, no further file written.
C15_NoRetryFailStop ==
    [][\A j \in Jobs :
         LET before == log[j]
             added == SubSeq(log'[j], Len(before) + 1, Len(log'[j]))
             Same(d, e) == d.op = e.op /\ d.arg = e.arg
         IN  /\ SubSeq(log'[j], 1, Len(before)) = before
             /\ \A k \in DOMAIN added :
                  IsServiceCall(added[k])
                  => /\ \A m \in DOMAIN before : ~Same(before[m], added[k])
                     /\ \A m \in 1..(k - 1) : ~Same(added[m], added[k])
             /\ (job[j].pc \in PastGate /\ job'[j].result.message \in ServiceFailures)
                => /\ job'[j].pc = "done"
                   /\ job'[j].result.status = "error"
                   /\ IsServiceCall(log'[j][Len(log'[j])])
                   /\ fs' = fs
             /\ job[j].pc = "done" => log'[j] = log[j] /\ job'[j] = job[j]]_vars

\* the request for the second chunk failed, after the first had succeeded
C15_Witness ==
    \E j \in Jobs : /\ job[j].result.message = "transcription failed"
                    /\ Len(ServiceCalls(log[j])) = 2
                    /\ log[j][Len(log[j])].arg = chunk_name(1)

----------------------------------------------------------------------------
(* C16 *)

\* C16: an invocation of the script that has ended has printed exactly one
\* result, whose status is success, duplicate or error; its exit status is
\* non-zero exactly when that status is error; and an invocation in which
\* process_video raised has printed the error result.  Before it ends, an
\* invocation has printed nothing.
C16_ExitContract ==
    \A j \in Jobs :
        /\ job[j].pc = "done"
           => /\ Len(job[j].stdout) = 1
              /\ job[j].stdout[1].status \in {"success", "duplicate", "error"}
              /\ (job[j].exit_status # 0) <=> (job[j].stdout[1].status = "error")
              /\ job[j].stdout[1].status = job[j].result.status
              /\ job[j].stdout[1].message = job[j].result.message
        /\ job[j].pc # "done" => job[j].stdout = <<>>

\* one invocation ended with a duplicate and exit status 0, another with an
\* exception in the middle of the job and exit status 1
C16_Witness ==
    \E j, k \in Jobs :
        /\ job[j].pc = "done" /\ job[j].stdout[1].status = "duplicate"
        /\ job[j].exit_status = 0
        /\ job[k].pc = "done" /\ job[k].stdout[1].message = "ffprobe failed"
        /\ job[k].exit_status = 1

----------------------------------------------------------------------------
(* C17 *)

\* C17: split_audio returns the source audio itself, untouched, as the only
\* chunk when its size S is at most the maximum M; above M it makes
\* floor(S / M) + 1 chunks, chunk i (from 0) starting at i * (D / n) and
\* lasting D / n for the total duration D and the chunk count n, so that
\* each chunk starts where the one before ends, the first at 0, and the
\* last ends at D.
C17_ChunkPlanning ==
    \A j \in Jobs :
        job[j].pc = "transcribe"
        => LET S == job[j].file_size
               D == job[j].duration
               n == Len(job[j].chunks)
               plan == job[j].plan
               M == 20 * 1024 * 1024
           IN  IF S <= M
               THEN /\ job[j].chunks = <<"audio.mp3">>
                    /\ plan = <<>>
                    /\ fs[job[j].output_folder]["audio.mp3"].size = S
                    /\ fs[job[j].output_folder]["audio.mp3"].seg = "all"
                    /\ \A k \in DOMAIN log[j] : log[j][k].arg \notin ChunkNames
               ELSE /\ n = (S \div M) + 1
                    /\ Len(plan) = n
                    /\ \A i \in 1..n :
                          /\ job[j].chunks[i] = chunk_name(i - 1)
                          /\ RatioEq(plan[i].chunk_duration, <<D, n>>)
                          /\ RatioEq(plan[i].start_time, <<(i - 1) * D, n>>)
                    /\ RatioEq(plan[1].start_time, <<0, 1>>)
                    /\ \A i \in 1..(n - 1) :
                          RatioEq(RatioSum(plan[i].start_time, plan[i].chunk_duration),
                                  plan[i + 1].start_time)
                    /\ RatioEq(RatioSum(plan[n].start_time, plan[n].chunk_duration),
                               <<D, 1>>)

\* audio of exactly twice the maximum was split into three chunks
C17_Witness ==
    \E j \in Jobs : /\ job[j].pc = "transcribe"
                    /\ job[j].file_size = 2 * max_size
                    /\ Len(job[j].chunks) = 3
                    /\ Len(job[j].plan) = 3

----------------------------------------------------------------------------
(* C18 *)

\* the rate of 0.006 dollars a minute in units of 1e-5 dollars a second
RatePerSecond == 10

\* C18: the cost that transcribe returns is the duration of the produced
\* audio in minutes times 0.006 dollars, whatever the size of the file in
\* bytes.
C18_CostFromDuration ==
    \A j \in Jobs :
        job[j].pc = "notes"
        => job[j].transcription_cost = job[j].duration * RatePerSecond

----------------------------------------------------------------------------
(* C19 *)

\* the title part of a name "<date> - <title>"
TitlePart(name) == SubSeq(name, 5, Len(name))

Sanitized(t) ==
    /\ \A i \in DOMAIN t : t[i] \notin {"<", ">", ":", "\"", "/", "\\", "|", "?", "*"}
    /\ Len(t) <= 80
    /\ t # <<>> => t[Len(t)] \notin {".", " "}

\* C19: for every title, the name that sanitize_folder_name returns has none
\* of the characters < > : " / \ | ? *, has at most 80 characters, and ends
\* in neither a period nor a space; so does the title part of the name that
\* create_readable_folder_name builds.
C19_SanitizedNames ==
    \A j \in Jobs :
        job[j].original_name # <<>>
        => /\ Sanitized(TitlePart(job[j].original_name))
           /\ SubSeq(job[j].original_name, 2, 4) = <<" ", "-", " ">>

\* a title of 81 characters with a period at the cut was sanitized
C19_Witness ==
    \E j \in Jobs : /\ job[j].original_name # <<>>
                    /\ job[j].title = Pad(79) \o <<".", "x">>
                    /\ TitlePart(job[j].original_name) = Pad(79)

----------------------------------------------------------------------------
(* C20 *)

\* a list-item line: "- x" or "<digits>. x"
IsItemLine(line) ==
    \/ StartsWith(line, <<"-", " ">>) /\ Len(line) > 2
    \/ \E d \in 1..Len(line) :
          /\ \A i \in 1..d : line[i] \in Digits
          /\ Len(line) >= d + 3 /\ line[d + 1] = "." /\ line[d + 2] = " "

\* the lengths of the maximal runs of consecutive list-item lines, in order
RunLengths(lines) ==
    LET n == Len(lines)
        starts == SelectSeq([i \in 1..n |-> i],
                            LAMBDA i : IsItemLine(lines[i])
                                       /\ (i = 1 \/ ~IsItemLine(lines[i - 1])))
        EndOf(i) == CHOOSE k \in i..n :
                        /\ \A m \in i..k : IsItemLine(lines[m])
                        /\ (k = n \/ ~IsItemLine(lines[k + 1]))
    IN  [r \in 1..Len(starts) |-> EndOf(starts[r]) - starts[r] + 1]

Positions(text, toks) == SelectSeq([i \in 1..Len(text) |-> i], LAMBDA i : text[i] \in toks)

\* one container for each run, the r-th holding as many items as the r-th
\* run has lines, and no item outside the containers
OneContainerPerRun(lines, text) ==
    LET runs == RunLengths(lines)
        opens == Positions(text, {"<ul>", "<ol>"})
        closes == Positions(text, {"</ul>", "</ol>"})
        items == Positions(text, {"<li>"})
        Inside(r) == {k \in 1..Len(items) : opens[r] < items[k] /\ items[k] < closes[r]}
    IN  /\ Len(opens) = Len(runs)
        /\ Len(closes) = Len(runs)
        /\ \A r \in 1..Len(runs) :
              /\ opens[r] < closes[r]
              /\ r < Len(runs) => closes[r] < opens[r + 1]
              /\ Cardinality(Inside(r)) = runs[r]
        /\ \A k \in 1..Len(items) : \E r \in 1..Len(runs) : k \in Inside(r)

\* C20: markdown_to_html renders every maximal run of consecutive list-item
\* lines, "- x" or "1. x", as one list container that holds one item tag for
\* each line of the run; there is never a container for each item and never
\* an item outside a container.
C20_ListMerging ==
    \A j \in Jobs :
        job[j].html # <<>> => OneContainerPerRun(job[j].markdown, job[j].html)

----------------------------------------------------------------------------
(* C21 *)

\* the job works in a provisional folder
InProvisional(j) == InFlight(j) /\ IsProvisional(job[j].output_folder[2])

\* C21: whatever the interleaving of the invocations on one target
\* directory, two of them in one clock second included, no two jobs in
\* flight use the same provisional folder, so that no job's audio.mp3, chunk
\* file, transcript.txt or notes.md is written into the folder of another.
C21_OneFolderPerJob ==
    \A j, k \in Jobs :
        (j # k /\ InProvisional(j) /\ InProvisional(k))
        => job[j].output_folder # job[k].output_folder

----------------------------------------------------------------------------
(* C22 *)

\* the job is in the loop of the exists-checks or at the rename
Resolving(j) == job[j].pc \in {"collide", "rename"}

\* C22: whatever the interleaving of two jobs that come to the same date and
\* title in one target directory, the exists-checks and the rename never let
\* both end in the same final folder, never let the rename of one replace
\* the folder of the other or merge into it, and never end a job with an
\* error.
C22_CollisionResolution ==
    [][\A j \in Jobs :
         /\ Resolving(j) => job'[j].result.status # "error"
         /\ (job[j].pc = "rename" /\ job'[j].pc = "blog")
            => /\ ~Exists(fs, job[j].final_folder)
               /\ \A k \in Jobs \ {j} :
                     job[k].result.status = "success"
                     => job[k].result.folder # job[j].final_folder]_vars

----------------------------------------------------------------------------
(* C23 *)

\* the job went on to the extraction of the audio
Extracted(j) == \E k \in DOMAIN log[j] : log[j][k].op = "ffmpeg"

\* C23: whatever the interleaving of two invocations on sources with the same
\* bytes and one archive root, at most one of them goes on to extraction and
\* transcription, and when both have ended at most one metadata record
\* carries that fingerprint.
C23_AtMostOnceConcurrent ==
    /\ \A j, k \in Jobs :
          (j # k /\ job[j].video.source_hash = job[k].video.source_hash)
          => ~(Extracted(j) /\ Extracted(k))
    /\ (\A j \in Jobs : job[j].pc = "done")
       => \A h \in {job[j].video.source_hash : j \in Jobs} :
             Cardinality(RecordsWith(fs, h)) <= 1

----------------------------------------------------------------------------
(* C24 *)

\* the title the code takes from the notes: the first heading, else the stem
TitleOf(notes_md, stem) ==
    LET heads == {i \in DOMAIN notes_md :
                     Len(notes_md[i]) >= 3 /\ SubSeq(notes_md[i], 1, 2) = <<"#", " ">>}
    IN  IF heads = {} THEN stem
        ELSE LET first == CHOOSE i \in heads : \A k \in heads : i <= k
             IN  SubSeq(notes_md[first], 3, Len(notes_md[first]))

\* C24: in every run of process_video the job's folder makes at most one
\* transition, from provisional to final, and never one back.  The rename
\* happens only after the notes have been generated and written, with the
\* title taken from the first heading of the notes or else from the stem of
\* the source file, and before the blog is requested; the date in the name
\* is the date of the timestamp taken when the job made its provisional
\* folder.
C24_TwoStateLifecycle ==
    [][\A j \in Jobs :
         /\ HasFinal(j)
            => /\ job'[j].output_folder = job[j].output_folder
               /\ Exists(fs', job[j].output_folder)
         /\ (~HasFinal(j) /\ HasFinal(j)')
            => LET src == job[j].output_folder
                   dst == job'[j].output_folder
                   before == log[j]
               IN  /\ job[j].pc = "rename"
                   /\ src = <<job[j].subfolder, temp_folder_name(job[j].timestamp)>>
                   /\ ~Exists(fs', src)
                   /\ fs'[dst] = fs[src]
                   /\ \E k \in DOMAIN before :
                         before[k].op = "write" /\ before[k].arg = "notes.md"
                   /\ fs[src]["notes.md"] = job[j].notes_md
                   /\ job[j].title = TitleOf(job[j].notes_md, job[j].video.stem)
                   /\ \A k \in DOMAIN before :
                         ~(before[k].op = "generate" /\ before[k].arg = "blog")
                   /\ dst[1] = job[j].subfolder
                   /\ dst[2][1] = date_str(job[j].timestamp)
                   /\ SubSeq(dst[2], 1, Len(job[j].original_name)) = job[j].original_name
                   /\ SubSeq(job[j].original_name, 5, 4 + Len(job[j].title)) = job[j].title]_vars

\* a job that began on the first day ended on the second, in a folder named
\* after the first
C24_Witness ==
    \E j \in Jobs : /\ job[j].result.status = "success"
                    /\ HasFinal(j)
                    /\ job[j].timestamp = 0
                    /\ now = 1
                    /\ job[j].output_folder[2][1] = date_str(0)

----------------------------------------------------------------------------
(* C25 *)

\* an operation that changed the file system: a file written or removed, a
\* folder renamed, a directory made that was not there
IsChange(e) ==
    \/ e.op \in {"write", "unlink", "rename"}
    \/ e.op = "mkdir" /\ e.n > 0

\* the place of the first duplicate scan in a history: past its end when
\* there is none
ScanAt(l) ==
    LET at == {m \in DOMAIN l : l[m].op = "scan"}
    IN  IF at = {} THEN Len(l) + 1 ELSE CHOOSE m \in at : \A n \in at : m <= n

\* C25: in every run of process_video the duplicate scan is made exactly
\* once, at the start of the job, and the job changes nothing in the file
\* system, the creation of a directory included, before that scan has
\* returned.
C25_ScanBeforeWrites ==
    \A j \in Jobs :
        LET l == log[j]
            s == ScanAt(l)
        IN  /\ Len(Only(l, {"scan"})) <= 1
            /\ job[j].pc \in PastGate => s <= Len(l)
            /\ \A k \in DOMAIN l : IsChange(l[k]) => s < k

----------------------------------------------------------------------------
(* C26 *)

\* C26: for a plan of N chunks transcribe emits, for each i from 1 to N, one
\* progress event with progress = i and total = N, before it asks for the
\* transcript of chunk i and after it has got the transcript of chunk i - 1;
\* the events come in strictly increasing order of i.
C26_ChunkProgress ==
    [][\A j \in Jobs :
         LET added == SubSeq(log'[j], Len(log[j]) + 1, Len(log'[j]))
             events == Only(log'[j], {"progress"})
             N == Len(job[j].chunks)
         IN  IF job[j].pc = "transcribe"
             THEN /\ \A k \in DOMAIN events :
                        /\ events[k].arg = "transcribing"
                        /\ events[k].n = k
                        /\ events[k].total = N
                  /\ \A k \in DOMAIN added :
                        /\ added[k].op = "request"
                           => /\ k > 1
                              /\ added[k - 1].op = "progress"
                              /\ added[k - 1].n = added[k].n + 1
                        /\ added[k].op = "progress"
                           => Len(Only(log[j], {"response"})) = added[k].n - 1
                  /\ job'[j].pc = "notes" => Len(events) = N
             ELSE Only(added, {"progress"}) = <<>>]_vars

\* the three chunks of a plan were transcribed, each after its event
C26_Witness ==
    \E j \in Jobs : /\ job[j].pc = "notes"
                    /\ Len(job[j].chunks) = 3
                    /\ Len(Only(log[j], {"progress"})) = 3
                    /\ Len(Only(log[j], {"response"})) = 3

----------------------------------------------------------------------------
(* C27 *)

\* the files of a finished job that the claim names, and those it excludes
NamedFiles == {"transcript.txt", "notes.md", "blog.md", "transcript.html", "metadata.json"}

\* the step in which process_video returns success
Succeeds(j) == job[j].result.status # "success" /\ job'[j].result.status = "success"

\* the provisional folder is gone; the final folder holds the named files and
\* neither the audio nor a chunk; metadata.json was written last and names
\* the folder
TidyEnd(j) ==
    LET final == job'[j].result.folder
        l == log'[j]
    IN  /\ ~Exists(fs', <<job[j].subfolder, temp_folder_name(job[j].timestamp)>>)
        /\ ~IsProvisional(final[2])
        /\ Exists(fs', final)
        /\ NamedFiles \subseteq DOMAIN fs'[final]
        /\ "audio.mp3" \notin DOMAIN fs'[final]
        /\ DOMAIN fs'[final] \cap ChunkNames = {}
        /\ l[Len(l)].op = "write" /\ l[Len(l)].arg = "metadata.json"
        /\ l[Len(l)].path = final
        /\ fs'[final]["metadata.json"].data["relative_path"] = final

\* the rendered HTML of the notes and of the blog: two files besides the
\* named ones, whatever their names
RenderedPages(j) ==
    Cardinality(DOMAIN fs'[job'[j].result.folder] \ NamedFiles) = 2

\* C27: when process_video returns the status success, the provisional
\* folder no longer exists; the final folder holds transcript.txt, notes.md,
\* blog.md, transcript.html, the rendered HTML of the notes and of the blog,
\* and metadata.json, and holds no audio.mp3 and no chunk file; metadata.json
\* was the last file written; and the record's relative_path names that
\* final folder relative to the archive root.
C27_SuccessEndState ==
    [][\A j \in Jobs : Succeeds(j) => (TidyEnd(j) /\ RenderedPages(j))]_vars

----------------------------------------------------------------------------
(* C28 *)

\* the fields of a record that are no cost
NonCostFields ==
    {"title", "source_file", "source_hash", "duration_seconds", "processed_at",
     "subfolder", "relative_path"}

\* the source hashes the records of an archive hold
HashesIn(F) ==
    {Get(F[p]["metadata.json"].data, "source_hash", "None") :
        p \in {q \in MetadataFiles(F) : IsRecord(F[q]["metadata.json"])}}

\* this step left the metadata.json of the folder in place, with its fields
\* that are no cost as they were
RecordKept(p) ==
    /\ HasFile(fs', p, "metadata.json")
    /\ fs'[p]["metadata.json"].kind = fs[p]["metadata.json"].kind
    /\ LET old == fs[p]["metadata.json"].data
           new == fs'[p]["metadata.json"].data
       IN  \A key \in NonCostFields :
             /\ (key \in DOMAIN old) = (key \in DOMAIN new)
             /\ key \in DOMAIN old => new[key] = old[key]

\* the duplicate check that found the folder before this step finds it after
StillFound(p) ==
    \A file_hash \in HashesIn(fs) :
        Found(p) \in check_already_processed(fs, "" \in dirs, "", file_hash)
        => Found(p) \in check_already_processed(fs', "" \in dirs', "", file_hash)

\* C28: no operation of process_video, regenerate_notes or regenerate_blog
\* deletes a metadata.json, and a regeneration leaves every field of a record
\* that is no cost (title, source_file, source_hash, duration_seconds,
\* processed_at, subfolder, relative_path) as it was, so a record the
\* duplicate check found before a regeneration is still found after it.
C28_RecordDurability ==
    [][\A p \in MetadataFiles(fs) : RecordKept(p) /\ StillFound(p)]_vars

\* a regeneration run is over that rewrote the metadata.json of a record
\* process_video had written, one with every field that is no cost
C28_Witness ==
    /\ run.pc = "done"
    /\ \E i \in DOMAIN run.results :
         /\ run.results[i] = "success"
         /\ HasFile(fs, run.folders[i], "metadata.json")
         /\ IsRecord(fs[run.folders[i]]["metadata.json"])
         /\ NonCostFields \subseteq DOMAIN fs[run.folders[i]]["metadata.json"].data
         /\ Found(run.folders[i]) \in
              check_already_processed(fs, TRUE, "",
                  fs[run.folders[i]]["metadata.json"].data["source_hash"])

----------------------------------------------------------------------------
(* C29 *)

\* process_folder is entered on a folder it has a reason to skip
SkipCase ==
    /\ run.pc = "folder"
    /\ run.idx <= Len(run.folders)
    /\ \/ ~HasFile(fs, RunFolder, "transcript.txt")
       \/ ~HasFile(fs, RunFolder, "metadata.json")
       \/ run.script = "blog" /\ HasFile(fs, RunFolder, "blog.md")
       \/ run.script = "notes" /\ HasFile(fs, RunFolder, "notes.md") /\ ~run.force

\* the results with status 'skip'
Skips == {"skip: No transcript.txt", "skip: No metadata.json", "skip: already exists"}

\* the requests for a blog that returned a text, by folder
BlogsGenerated(folder) ==
    {i \in DOMAIN run.trace : run.trace[i] = RgEv("request", "blog", folder, TRUE)}

\* C29: process_folder returns status 'skip', issues no generation request
\* and changes no file when transcript.txt or metadata.json is missing, when
\* (blog) blog.md exists, or when (notes) notes.md exists and force is false;
\* so regenerate_blog, run twice on a folder, generates its blog at most once.
C29_SkipLeavesState ==
    [][/\ SkipCase => /\ run'.results \in {Append(run.results, skip) : skip \in Skips}
                      /\ run'.pc = "folder"
                      /\ run'.trace = run.trace
                      /\ fs' = fs /\ dirs' = dirs
       /\ \A folder \in DOMAIN fs' : Cardinality(BlogsGenerated(folder)') <= 1]_vars

\* the second regenerate_blog run over the archive is over: the first one
\* generated a blog, the second one skipped every folder, one of them for
\* the blog.md the first one wrote
C29_Witness ==
    /\ run.pc = "done"
    /\ run.n = 2
    /\ run.script = "blog"
    /\ Len(run.results) > 1
    /\ \A i \in DOMAIN run.results : run.results[i] \in Skips
    /\ \E folder \in DOMAIN fs : Cardinality(BlogsGenerated(folder)) = 1
    /\ \E i \in DOMAIN run.results : run.results[i] = "skip: No transcript.txt"
    /\ \E i \in DOMAIN run.results : run.results[i] = "skip: No metadata.json"

----------------------------------------------------------------------------
(* C30 *)

\* regenerate_notes with force is at work on a folder
ForcedNotes == Regenerating /\ run.script = "notes" /\ run.force

\* this step leaves notes.md and metadata.json of the folder as they were
NotesAndRecordKept ==
    /\ HasFile(fs', RunFolder, "notes.md") = HasFile(fs, RunFolder, "notes.md")
    /\ HasFile(fs, RunFolder, "notes.md")
       => fs'[RunFolder]["notes.md"] = fs[RunFolder]["notes.md"]
    /\ fs'[RunFolder]["metadata.json"] = fs[RunFolder]["metadata.json"]

\* the entries this step added to the trace
Traced == SubSeq(run'.trace, Len(run.trace) + 1, Len(run'.trace))

\* C30: regenerate_notes with force on a folder that has a notes.md copies
\* the notes to notes.md.bak before the generation request is issued; if the
\* request fails, notes.md and metadata.json hold what they held before; on
\* success notes.md is written before metadata.json.
C30_BackupAndFailure ==
    [][ForcedNotes =>
         /\ (run.pc = "folder" /\ run'.pc = "generate" /\ HasFile(fs, RunFolder, "notes.md"))
            => /\ Traced = <<RgEv("write", "notes.md.bak", RunFolder, TRUE)>>
               /\ fs'[RunFolder]["notes.md.bak"] = fs[RunFolder]["notes.md"]
               /\ NotesAndRecordKept
         /\ (run.pc = "generate" /\ HasFile(fs, RunFolder, "notes.md"))
            => /\ HasFile(fs, RunFolder, "notes.md.bak")
               /\ fs[RunFolder]["notes.md.bak"] = fs[RunFolder]["notes.md"]
               /\ fs[RunFolder]["metadata.json"].data = run.metadata
               /\ Traced[1].op = "request"
         /\ (run.pc = "generate" /\ run'.pc = "crashed")
            => /\ Traced = <<RgEv("request", "notes", RunFolder, FALSE)>>
               /\ NotesAndRecordKept
         /\ (run.pc = "generate" /\ run'.pc = "folder")
            => Traced = <<RgEv("request", "notes", RunFolder, TRUE),
                          RgEv("write", "notes.md", RunFolder, TRUE),
                          RgEv("write", "metadata.json", RunFolder, TRUE)>>]_vars

\* a forced notes regeneration of a folder with notes failed at the request,
\* leaving the notes and their backup, and a second one went through
C30_Witness ==
    /\ run.script = "notes" /\ run.force /\ run.pc = "done"
    /\ \E i, k \in DOMAIN run.trace :
         /\ i + 1 < k
         /\ run.trace[i] = RgEv("write", "notes.md.bak", <<"", OtherName>>, TRUE)
         /\ run.trace[i + 1] = RgEv("request", "notes", <<"", OtherName>>, FALSE)
         /\ run.trace[k] = RgEv("request", "notes", <<"", OtherName>>, TRUE)
    /\ fs[<<"", OtherName>>]["notes.md.bak"] = OtherFolder["notes.md"]
    /\ fs[<<"", OtherName>>]["notes.md"] # OtherFolder["notes.md"]

====
